---- MODULE Spec2Model ----
(***************************************************************************)
(* q2boot: the QEMU command-building and validation engine.                *)
(*                                                                         *)
(* The module models internal/vm (BaseVM, the four architecture variants,  *)
(* the factory), internal/config (VMConfig.Validate), internal/detector    *)
(* (DetectArchitecture) and the launch pipeline of cmd/q2boot.  Every      *)
(* specification below shares the same variables; the ones a specification *)
(* does not use keep the value its Init gives them.                        *)
(***************************************************************************)
EXTENDS Integers, Sequences, FiniteSets, TLC

VARIABLES
    pc,         \* position of the running operation
    cfg,        \* config.VMConfig
    v,          \* the VM: BaseVM fields plus the variant tag `kind`
    args,       \* argument list under construction / last built
    prevArgs,   \* argument list of the previous build of the same VM
    builds,     \* number of completed buildArgs calls
    env,        \* host: binaries on PATH, busy ports, existing files
    tmpFiles,   \* temporary files created so far: records [name, size]
    events,     \* externally visible steps, in order
    result      \* outcome of the operation: NoResult, Ok or an error record

vars == <<pc, cfg, v, args, prevArgs, builds, env, tmpFiles, events, result>>

----------------------------------------------------------------------------
(* Bounds of the model *)

MaxBuilds == 2
NumTempNames == 3

----------------------------------------------------------------------------
(* Program constants *)

DefaultCPUCount == 2
DefaultRAMGB == 2
DefaultSSHPort == 2222
DefaultMonitorPort == 0
DefaultLogFile == "q2boot.log"
LocalhostAddress == "127.0.0.1"
MonitorProtocol == "telnet"
AudioDeviceID == "snd0"
AudioDeviceType == "none"
SnapshotArgument == "-snapshot"
DisplayModeGraphical == "curses"

SupportedArchitectures == <<"x86_64", "aarch64", "ppc64le", "s390x">>

aavmfCodePaths ==
    << "/usr/share/qemu/aavmf-aarch64-code.bin", "/usr/share/AAVMF/AAVMF_CODE.fd" >>

----------------------------------------------------------------------------
(* Helpers *)

Range(s) == { s[i] : i \in 1..Len(s) }

\* slices.Contains on a list of strings
SliceContains(s, x) == \E i \in 1..Len(s) : s[i] = x

NoResult == [kind |-> "none"]

\* a nil error
Ok == [kind |-> "ok"]

\* fmt.Errorf(fmt, a): the format string and the value it interpolates
Err(fmt, a) == [kind |-> "error", fmt |-> fmt, arg |-> a]

\* fmt.Errorf("...: %w", inner)
Wrap(fmt, inner) == [kind |-> "error", fmt |-> fmt, arg |-> "", cause |-> inner]

IsErr(r) == r.kind = "error"

\* size in bytes of a firmware image of the host
FileSize(path) ==
    IF path = aavmfCodePaths[1] THEN 67108864 ELSE 2097152

\* name os.CreateTemp("", "q2boot-aavmf-vars-*.fd") gives its n-th candidate
TempName(n) == "/tmp/q2boot-aavmf-vars-" \o ToString(n) \o ".fd"

TempNames == { TempName(n) : n \in 1..NumTempNames }

----------------------------------------------------------------------------
(* BaseVM and the variants *)

NewBaseVM(kind) ==
    [ kind         |-> kind,
      DiskPath     |-> "",
      CPU          |-> DefaultCPUCount,
      RAM          |-> DefaultRAMGB,
      SSHPort      |-> DefaultSSHPort,
      MonitorPort  |-> DefaultMonitorPort,
      LogFile      |-> DefaultLogFile,
      Graphical    |-> FALSE,
      NoSnapshot   |-> FALSE,
      Confirm      |-> FALSE,
      FirmwarePath |-> "" ]

\* mutant of FirstFirmware: the search does not stop at the first path found
FirstFirmware_Last(files) ==
    IF \E i \in 1..Len(aavmfCodePaths) : aavmfCodePaths[i] \in files
    THEN aavmfCodePaths[CHOOSE i \in 1..Len(aavmfCodePaths) :
              /\ aavmfCodePaths[i] \in files
              /\ \A j \in (i + 1)..Len(aavmfCodePaths) : aavmfCodePaths[j] \notin files]
    ELSE ""

\* first path of aavmfCodePaths that os.Stat finds, "" when there is none
FirstFirmware(files) ==
    IF \E i \in 1..Len(aavmfCodePaths) : aavmfCodePaths[i] \in files
    THEN aavmfCodePaths[CHOOSE i \in 1..Len(aavmfCodePaths) :
              /\ aavmfCodePaths[i] \in files
              /\ \A j \in 1..(i - 1) : aavmfCodePaths[j] \notin files]
    ELSE ""

NewAARCH64VM(files) ==
    [NewBaseVM("aarch64") EXCEPT !.FirmwarePath = FirstFirmware(files)]

QEMUBinary(kind) ==
    CASE kind = "x86_64"  -> "qemu-system-x86_64"
      [] kind = "aarch64" -> "qemu-system-aarch64"
      [] kind = "ppc64le" -> "qemu-system-ppc64"
      [] kind = "s390x"   -> "qemu-system-s390x"

\* mutant of AARCH64VM_GetArchArgs: the variable store is listed before the code image
AARCH64VM_GetArchArgs_VarsFirst(vm, files, tmp) ==
    LET base == <<"-M", "virt", "-cpu", "max">> IN
    IF vm.FirmwarePath = "" \/ vm.FirmwarePath \notin files \/ tmp = "" THEN base
    ELSE base \o
         << "-drive", "if=pflash,format=raw,file=" \o tmp,
            "-drive", "if=pflash,format=raw,readonly=on,file=" \o vm.FirmwarePath >>

\* AARCH64VM.GetArchArgs; tmp is the name CreateTemp returned, "" when it failed
AARCH64VM_GetArchArgs(vm, files, tmp) ==
    LET base == <<"-M", "virt", "-cpu", "max">> IN
    IF vm.FirmwarePath = "" THEN base
    ELSE IF vm.FirmwarePath \notin files THEN base
    ELSE IF tmp = "" THEN base
    ELSE base \o
         << "-drive", "if=pflash,format=raw,readonly=on,file=" \o vm.FirmwarePath,
            "-drive", "if=pflash,format=raw,file=" \o tmp >>

X86_64VM_GetArchArgs == <<"-M", "q35", "-enable-kvm", "-cpu", "host">>

PPC64LEVM_GetArchArgs == <<"-M", "pseries", "-cpu", "power10">>

S390XVM_GetArchArgs == <<"-machine", "s390-ccw-virtio", "-cpu", "max">>

X86_64VM_GetDiskArgs(vm) ==
    << "-drive",
       "file=" \o vm.DiskPath \o ",if=none,id=disk0,cache=none,aio=native,discard=unmap",
       "-device",
       "virtio-blk-pci,drive=disk0,num-queues=" \o ToString(vm.CPU) >>

AARCH64VM_GetDiskArgs(vm) ==
    << "-drive",
       "file=" \o vm.DiskPath \o ",if=none,id=disk0,cache=none,aio=native,discard=unmap",
       "-device",
       "virtio-blk-pci,drive=disk0,num-queues=" \o ToString(vm.CPU) >>

PPC64LEVM_GetDiskArgs(vm) ==
    << "-drive",
       "file=" \o vm.DiskPath \o ",id=disk0,if=none,cache=none,aio=native,discard=unmap",
       "-device",
       "virtio-blk-pci,drive=disk0,id=dr0,bootindex=1,num-queues=" \o ToString(vm.CPU) >>

S390XVM_GetDiskArgs(vm) ==
    << "-drive",
       "file=" \o vm.DiskPath \o ",id=disk1,if=none,cache=unsafe,discard=unmap",
       "-device",
       "virtio-blk-ccw,drive=disk1,id=dr1,bootindex=1" >>

X86_64VM_GetNetworkArgs(vm) ==
    << "-netdev",
       "user,id=net0,hostfwd=tcp::" \o ToString(vm.SSHPort) \o "-:22",
       "-device",
       "virtio-net-pci,netdev=net0,mq=on" >>

AARCH64VM_GetNetworkArgs(vm) ==
    << "-netdev",
       "user,id=net0,hostfwd=tcp::" \o ToString(vm.SSHPort) \o "-:22",
       "-device",
       "virtio-net-pci,netdev=net0,mq=on" >>

PPC64LEVM_GetNetworkArgs(vm) ==
    << "-netdev",
       "user,id=net0,hostfwd=tcp::" \o ToString(vm.SSHPort) \o "-:22",
       "-device",
       "virtio-net-pci,netdev=net0,mq=on" >>

S390XVM_GetNetworkArgs(vm) ==
    << "-netdev",
       "user,id=net1,hostfwd=tcp::" \o ToString(vm.SSHPort) \o "-:22",
       "-device",
       "virtio-net-ccw,netdev=net1" >>

X86_64VM_GetGraphicalArgs == <<"-device", "virtio-vga-gl", "-display", "gtk,gl=on">>

AARCH64VM_GetGraphicalArgs == <<"-device", "virtio-vga-gl", "-display", "gtk,gl=on">>

PPC64LEVM_GetGraphicalArgs == <<"-nographic", "-serial", "stdio">>

S390XVM_GetGraphicalArgs == <<"-nographic", "-serial", "stdio", "-monitor", "none">>

\* BaseVM's default, which S390XVM inherits
BaseVM_GetNonGraphicalDisplayArgs == <<"-display", DisplayModeGraphical>>

X86_64VM_GetNonGraphicalDisplayArgs == <<"-display", "curses">>

\* mutant of AARCH64VM_GetNonGraphicalDisplayArgs: the serial console is
\* redirected whatever the log file
AARCH64VM_GetNonGraphicalDisplayArgs_AlwaysSerial(vm) ==
    <<"-nographic", "-serial", "mon:stdio">>

\* AARCH64VM.GetNonGraphicalDisplayArgs
AARCH64VM_GetNonGraphicalDisplayArgs(vm) ==
    IF vm.LogFile # "" THEN <<"-nographic">>
    ELSE <<"-nographic", "-serial", "mon:stdio">>

PPC64LEVM_GetNonGraphicalDisplayArgs == <<"-nographic">>

(* The methods of the VM interface, dispatched on the variant *)

GetArchArgs(vm, files, tmp) ==
    CASE vm.kind = "x86_64"  -> X86_64VM_GetArchArgs
      [] vm.kind = "aarch64" -> AARCH64VM_GetArchArgs(vm, files, tmp)
      [] vm.kind = "ppc64le" -> PPC64LEVM_GetArchArgs
      [] vm.kind = "s390x"   -> S390XVM_GetArchArgs

GetDiskArgs(vm) ==
    CASE vm.kind = "x86_64"  -> X86_64VM_GetDiskArgs(vm)
      [] vm.kind = "aarch64" -> AARCH64VM_GetDiskArgs(vm)
      [] vm.kind = "ppc64le" -> PPC64LEVM_GetDiskArgs(vm)
      [] vm.kind = "s390x"   -> S390XVM_GetDiskArgs(vm)

GetNetworkArgs(vm) ==
    CASE vm.kind = "x86_64"  -> X86_64VM_GetNetworkArgs(vm)
      [] vm.kind = "aarch64" -> AARCH64VM_GetNetworkArgs(vm)
      [] vm.kind = "ppc64le" -> PPC64LEVM_GetNetworkArgs(vm)
      [] vm.kind = "s390x"   -> S390XVM_GetNetworkArgs(vm)

GetGraphicalArgs(vm) ==
    CASE vm.kind = "x86_64"  -> X86_64VM_GetGraphicalArgs
      [] vm.kind = "aarch64" -> AARCH64VM_GetGraphicalArgs
      [] vm.kind = "ppc64le" -> PPC64LEVM_GetGraphicalArgs
      [] vm.kind = "s390x"   -> S390XVM_GetGraphicalArgs

GetNonGraphicalDisplayArgs(vm) ==
    CASE vm.kind = "x86_64"  -> X86_64VM_GetNonGraphicalDisplayArgs
      [] vm.kind = "aarch64" -> AARCH64VM_GetNonGraphicalDisplayArgs(vm)
      [] vm.kind = "ppc64le" -> PPC64LEVM_GetNonGraphicalDisplayArgs
      [] vm.kind = "s390x"   -> BaseVM_GetNonGraphicalDisplayArgs

----------------------------------------------------------------------------
(* Factory and Configure *)

IsArchSupported(arch) == SliceContains(SupportedArchitectures, arch)

\* mutant of CreateVMResult: an empty architecture falls back to x86_64
CreateVMResult_DefaultX86(arch, files) ==
    CASE arch = "x86_64"  -> [vm |-> NewBaseVM("x86_64"), err |-> Ok]
      [] arch = ""        -> [vm |-> NewBaseVM("x86_64"), err |-> Ok]
      [] arch = "aarch64" -> [vm |-> NewAARCH64VM(files), err |-> Ok]
      [] arch = "ppc64le" -> [vm |-> NewBaseVM("ppc64le"), err |-> Ok]
      [] arch = "s390x"   -> [vm |-> NewBaseVM("s390x"), err |-> Ok]
      [] OTHER -> [vm |-> NewBaseVM("none"),
                   err |-> Err("unsupported architecture: %s", arch)]

\* CreateVM's switch: the variant and a nil error, or no variant and an error
CreateVMResult(arch, files) ==
    CASE arch = "x86_64"  -> [vm |-> NewBaseVM("x86_64"), err |-> Ok]
      [] arch = "aarch64" -> [vm |-> NewAARCH64VM(files), err |-> Ok]
      [] arch = "ppc64le" -> [vm |-> NewBaseVM("ppc64le"), err |-> Ok]
      [] arch = "s390x"   -> [vm |-> NewBaseVM("s390x"), err |-> Ok]
      [] OTHER -> [vm |-> NewBaseVM("none"),
                   err |-> Err("unsupported architecture: %s", arch)]

CreateVM ==
    /\ pc = "create"
    /\ LET r == CreateVMResult(cfg.Arch, env.files) IN
       IF r.err = Ok
       THEN /\ v' = r.vm
            /\ pc' = "configure"
            /\ UNCHANGED result
       ELSE /\ result' = r.err
            /\ pc' = "done"
            /\ UNCHANGED v
    /\ UNCHANGED <<cfg, args, prevArgs, builds, env, tmpFiles, events>>

\* GetQEMUBinaryForArch: the binary of the variant CreateVM gives, or its error
GetQEMUBinaryForArchResult(arch, files) ==
    LET r == CreateVMResult(arch, files) IN
    IF r.err # Ok
    THEN [binary |-> "", err |-> r.err]
    ELSE [binary |-> QEMUBinary(r.vm.kind), err |-> Ok]

\* a call of GetQEMUBinaryForArch(cfg.Arch); no VM is kept
GetQEMUBinaryForArch ==
    /\ pc = "create"
    /\ LET r == GetQEMUBinaryForArchResult(cfg.Arch, env.files) IN
       result' = IF r.err # Ok THEN r.err ELSE [kind |-> "binary", arg |-> r.binary]
    /\ pc' = "done"
    /\ UNCHANGED <<cfg, v, args, prevArgs, builds, env, tmpFiles, events>>

\* mutant of Configured: the disk path is copied even when it is empty
Configured_CopiesEmptyDisk(vm, c) ==
    [vm EXCEPT !.CPU = c.CPU,
               !.RAM = c.RAMGb,
               !.SSHPort = c.SSHPort,
               !.MonitorPort = c.MonitorPort,
               !.LogFile = c.LogFile,
               !.Graphical = c.Graphical,
               !.NoSnapshot = c.WriteMode,
               !.Confirm = c.Confirm,
               !.DiskPath = c.DiskPath]

\* BaseVM.Configure applied to a VM
Configured(vm, c) ==
    [vm EXCEPT !.CPU = c.CPU,
               !.RAM = c.RAMGb,
               !.SSHPort = c.SSHPort,
               !.MonitorPort = c.MonitorPort,
               !.LogFile = c.LogFile,
               !.Graphical = c.Graphical,
               !.NoSnapshot = c.WriteMode,
               !.Confirm = c.Confirm,
               !.DiskPath = IF c.DiskPath # "" THEN c.DiskPath ELSE vm.DiskPath]

Configure ==
    /\ pc = "configure"
    /\ v' = Configured(v, cfg)
    /\ pc' = "configured"
    /\ UNCHANGED <<cfg, args, prevArgs, builds, env, tmpFiles, events, result>>

\* BaseVM.SetDiskPath(path), called on a VM that has no disk path yet
SetDiskPath ==
    /\ pc = "configure"
    /\ v.DiskPath = ""
    /\ \E path \in {"/tmp/old.img", "/tmp/disk.qcow2"} :
          v' = [v EXCEPT !.DiskPath = path]
    /\ UNCHANGED <<pc, cfg, args, prevArgs, builds, env, tmpFiles, events, result>>

----------------------------------------------------------------------------
(* BaseVM.buildArgs, one action per append *)

\* a direct call of buildArgs on a configured VM
BuildArgsCall ==
    /\ pc = "configured"
    /\ args' = <<>>
    /\ pc' = "build_arch"
    /\ UNCHANGED <<cfg, v, prevArgs, builds, env, tmpFiles, events, result>>

\* whether GetArchArgs reaches os.CreateTemp
NeedsTemp(vm, files) ==
    vm.kind = "aarch64" /\ vm.FirmwarePath # "" /\ vm.FirmwarePath \in files

TempTaken == { f.name : f \in tmpFiles }

\* the names os.CreateTemp can return: any name no existing file has;
\* none when the temporary directory cannot be written
TempChoices ==
    IF env.tmpOK THEN TempNames \ TempTaken ELSE {}

BuildArch ==
    /\ pc = "build_arch"
    /\ IF NeedsTemp(v, env.files) /\ TempChoices # {}
       THEN \E tmp \in TempChoices :
               /\ args' = args \o GetArchArgs(v, env.files, tmp)
               /\ tmpFiles' = tmpFiles \cup
                     {[name |-> tmp, size |-> FileSize(v.FirmwarePath)]}
       ELSE /\ args' = args \o GetArchArgs(v, env.files, "")
            /\ UNCHANGED tmpFiles
    /\ pc' = "build_common"
    /\ UNCHANGED <<cfg, v, prevArgs, builds, env, events, result>>

\* mutant of BuildCommon: memory size before CPU count
BuildCommon_MemoryFirst ==
    /\ pc = "build_common"
    /\ args' = args \o <<"-m", ToString(v.RAM) \o "G">> \o <<"-smp", ToString(v.CPU)>>
    /\ pc' = "build_disk"
    /\ UNCHANGED <<cfg, v, prevArgs, builds, env, tmpFiles, events, result>>

BuildCommon ==
    /\ pc = "build_common"
    /\ args' = args \o <<"-smp", ToString(v.CPU)>> \o <<"-m", ToString(v.RAM) \o "G">>
    /\ pc' = "build_disk"
    /\ UNCHANGED <<cfg, v, prevArgs, builds, env, tmpFiles, events, result>>

BuildDisk ==
    /\ pc = "build_disk"
    /\ args' = args \o GetDiskArgs(v)
    /\ pc' = "build_net"
    /\ UNCHANGED <<cfg, v, prevArgs, builds, env, tmpFiles, events, result>>

BuildNet ==
    /\ pc = "build_net"
    /\ args' = args \o GetNetworkArgs(v)
    /\ pc' = "build_audio"
    /\ UNCHANGED <<cfg, v, prevArgs, builds, env, tmpFiles, events, result>>

BuildAudio ==
    /\ pc = "build_audio"
    /\ args' = args \o <<"-audiodev", AudioDeviceType \o ",id=" \o AudioDeviceID>>
    /\ pc' = "build_display"
    /\ UNCHANGED <<cfg, v, prevArgs, builds, env, tmpFiles, events, result>>

\* mutant of DisplayBranch: the write-mode test is inverted
DisplayBranch_SnapshotInverted(vm) ==
    IF vm.Graphical
    THEN GetGraphicalArgs(vm) \o
         (IF SliceContains(GetGraphicalArgs(vm), "-nographic")
          THEN <<"-monitor", "none">> ELSE <<>>)
    ELSE GetNonGraphicalDisplayArgs(vm) \o
         (IF vm.NoSnapshot THEN <<SnapshotArgument>> ELSE <<>>)

\* mutant of DisplayBranch: a -nographic fallback is not recognised
DisplayBranch_NoFallbackCheck(vm) ==
    IF vm.Graphical
    THEN GetGraphicalArgs(vm)
    ELSE GetNonGraphicalDisplayArgs(vm) \o
         (IF ~vm.NoSnapshot THEN <<SnapshotArgument>> ELSE <<>>)

\* mutant of DisplayBranch: graphical mode always disables the monitor
DisplayBranch_AlwaysMonitorNone(vm) ==
    IF vm.Graphical
    THEN GetGraphicalArgs(vm) \o <<"-monitor", "none">>
    ELSE GetNonGraphicalDisplayArgs(vm) \o
         (IF ~vm.NoSnapshot THEN <<SnapshotArgument>> ELSE <<>>)

\* what the display branch appends
DisplayBranch(vm) ==
    IF vm.Graphical
    THEN GetGraphicalArgs(vm) \o
         (IF SliceContains(GetGraphicalArgs(vm), "-nographic")
          THEN <<"-monitor", "none">> ELSE <<>>)
    ELSE GetNonGraphicalDisplayArgs(vm) \o
         (IF ~vm.NoSnapshot THEN <<SnapshotArgument>> ELSE <<>>)

BuildDisplay ==
    /\ pc = "build_display"
    /\ args' = args \o DisplayBranch(v)
    /\ pc' = "build_monitor"
    /\ UNCHANGED <<cfg, v, prevArgs, builds, env, tmpFiles, events, result>>

\* mutant of MonitorConfig: the monitor is disabled in graphical mode too
MonitorConfig_AlwaysDisable(vm, a) ==
    IF vm.MonitorPort > 0
    THEN << "-monitor",
            MonitorProtocol \o ":" \o LocalhostAddress \o ":" \o
                ToString(vm.MonitorPort) \o ",server,nowait" >>
    ELSE IF ~SliceContains(a, "-monitor") THEN <<"-monitor", "none">> ELSE <<>>

\* what the monitor configuration appends to the arguments a built so far
MonitorConfig(vm, a) ==
    IF vm.MonitorPort > 0
    THEN << "-monitor",
            MonitorProtocol \o ":" \o LocalhostAddress \o ":" \o
                ToString(vm.MonitorPort) \o ",server,nowait" >>
    ELSE IF ~vm.Graphical
         THEN (IF ~SliceContains(a, "-monitor") THEN <<"-monitor", "none">> ELSE <<>>)
         ELSE <<>>

BuildMonitor ==
    /\ pc = "build_monitor"
    /\ args' = args \o MonitorConfig(v, args)
    /\ builds' = builds + 1
    /\ pc' = "built"
    /\ UNCHANGED <<cfg, v, prevArgs, env, tmpFiles, events, result>>

\* buildArgs called again on the same VM
Rebuild ==
    /\ pc = "built"
    /\ builds < MaxBuilds
    /\ prevArgs' = args
    /\ args' = <<>>
    /\ pc' = "build_arch"
    /\ UNCHANGED <<cfg, v, builds, env, tmpFiles, events, result>>

----------------------------------------------------------------------------
(* config.VMConfig.Validate *)

MinCPU == 1
MaxCPU == 32
MinRAM == 1
MaxRAM == 128
MinPrivilegedPort == 1024

\* os.Stat(path) fails with an error for which os.IsNotExist is true
StatNotExist(path, e) == path \notin e.files /\ path \notin e.statErr

\* mutant of CfgValidateResult: the SSH port minimum is exclusive
CfgValidateResult_ExclusiveMin(c, e) ==
    IF c.CPU < MinCPU \/ c.CPU > MaxCPU
    THEN Err("CPU count must be between %d and %d, got %d", ToString(c.CPU))
    ELSE IF c.RAMGb < MinRAM \/ c.RAMGb > MaxRAM
    THEN Err("RAM must be between %d and %d GB, got %d", ToString(c.RAMGb))
    ELSE IF c.SSHPort <= MinPrivilegedPort
    THEN Err("SSH port must be >= %d, got %d", ToString(c.SSHPort))
    ELSE IF c.MonitorPort # 0 /\ c.MonitorPort < MinPrivilegedPort
    THEN Err("monitor port must be >= %d, got %d", ToString(c.MonitorPort))
    ELSE IF c.DiskPath = ""
    THEN Err("disk path is required (use -d or --disk)", "")
    ELSE IF StatNotExist(c.DiskPath, e)
    THEN Err("disk image not found at '%s'", c.DiskPath)
    ELSE Ok

\* mutant of CfgValidateResult: an empty disk path is not told apart
CfgValidateResult_NoEmptyCheck(c, e) ==
    IF c.CPU < MinCPU \/ c.CPU > MaxCPU
    THEN Err("CPU count must be between %d and %d, got %d", ToString(c.CPU))
    ELSE IF c.RAMGb < MinRAM \/ c.RAMGb > MaxRAM
    THEN Err("RAM must be between %d and %d GB, got %d", ToString(c.RAMGb))
    ELSE IF c.SSHPort < MinPrivilegedPort
    THEN Err("SSH port must be >= %d, got %d", ToString(c.SSHPort))
    ELSE IF c.MonitorPort # 0 /\ c.MonitorPort < MinPrivilegedPort
    THEN Err("monitor port must be >= %d, got %d", ToString(c.MonitorPort))
    ELSE IF StatNotExist(c.DiskPath, e)
    THEN Err("disk image not found at '%s'", c.DiskPath)
    ELSE Ok

\* mutant of CfgValidateResult: the monitor port must differ from the SSH port
CfgValidateResult_DistinctPorts(c, e) ==
    IF c.CPU < MinCPU \/ c.CPU > MaxCPU
    THEN Err("CPU count must be between %d and %d, got %d", ToString(c.CPU))
    ELSE IF c.RAMGb < MinRAM \/ c.RAMGb > MaxRAM
    THEN Err("RAM must be between %d and %d GB, got %d", ToString(c.RAMGb))
    ELSE IF c.SSHPort < MinPrivilegedPort
    THEN Err("SSH port must be >= %d, got %d", ToString(c.SSHPort))
    ELSE IF c.MonitorPort # 0 /\ (c.MonitorPort < MinPrivilegedPort \/ c.MonitorPort = c.SSHPort)
    THEN Err("monitor port must be >= %d, got %d", ToString(c.MonitorPort))
    ELSE IF c.DiskPath = ""
    THEN Err("disk path is required (use -d or --disk)", "")
    ELSE IF StatNotExist(c.DiskPath, e)
    THEN Err("disk image not found at '%s'", c.DiskPath)
    ELSE Ok

\* mutant of CfgValidateResult: the RAM range is checked before the CPU range
CfgValidateResult_RAMFirst(c, e) ==
    IF c.RAMGb < MinRAM \/ c.RAMGb > MaxRAM
    THEN Err("RAM must be between %d and %d GB, got %d", ToString(c.RAMGb))
    ELSE IF c.CPU < MinCPU \/ c.CPU > MaxCPU
    THEN Err("CPU count must be between %d and %d, got %d", ToString(c.CPU))
    ELSE IF c.SSHPort < MinPrivilegedPort
    THEN Err("SSH port must be >= %d, got %d", ToString(c.SSHPort))
    ELSE IF c.MonitorPort # 0 /\ c.MonitorPort < MinPrivilegedPort
    THEN Err("monitor port must be >= %d, got %d", ToString(c.MonitorPort))
    ELSE IF c.DiskPath = ""
    THEN Err("disk path is required (use -d or --disk)", "")
    ELSE IF StatNotExist(c.DiskPath, e)
    THEN Err("disk image not found at '%s'", c.DiskPath)
    ELSE Ok

\* the error VMConfig.Validate returns for c on host e
CfgValidateResult(c, e) ==
    IF c.CPU < MinCPU \/ c.CPU > MaxCPU
    THEN Err("CPU count must be between %d and %d, got %d", ToString(c.CPU))
    ELSE IF c.RAMGb < MinRAM \/ c.RAMGb > MaxRAM
    THEN Err("RAM must be between %d and %d GB, got %d", ToString(c.RAMGb))
    ELSE IF c.SSHPort < MinPrivilegedPort
    THEN Err("SSH port must be >= %d, got %d", ToString(c.SSHPort))
    ELSE IF c.MonitorPort # 0 /\ c.MonitorPort < MinPrivilegedPort
    THEN Err("monitor port must be >= %d, got %d", ToString(c.MonitorPort))
    ELSE IF c.DiskPath = ""
    THEN Err("disk path is required (use -d or --disk)", "")
    ELSE IF StatNotExist(c.DiskPath, e)
    THEN Err("disk image not found at '%s'", c.DiskPath)
    ELSE Ok

\* whether Validate gets as far as os.Stat
CfgReachesStat(c, e) ==
    CfgValidateResult(c, e) \in
        {Ok, Err("disk image not found at '%s'", c.DiskPath)}

Event(op, a) == [op |-> op, arg |-> a]

CfgValidate ==
    /\ pc = "cfg_validate"
    /\ result' = CfgValidateResult(cfg, env)
    /\ events' = IF CfgReachesStat(cfg, env)
                 THEN Append(events, Event("stat", cfg.DiskPath))
                 ELSE events
    /\ pc' = "cfg_returned"
    /\ UNCHANGED <<cfg, v, args, prevArgs, builds, env, tmpFiles>>

----------------------------------------------------------------------------
(* ValidateQEMUBinary, IsPortAvailable, ValidatePortsAvailable and          *)
(* BaseVM.Validate                                                          *)

\* IsPortAvailable(port): net.Listen on 127.0.0.1, closed again when it worked
IsPortAvailable(port, e) == port \notin e.busyPorts

\* mutant of PortEvents: the listener is not closed
PortEvents_Leak(port, e) == <<Event("listen", ToString(port))>>

\* the system calls of IsPortAvailable(port): the bind, and the close of the
\* listener when the bind worked
PortEvents(port, e) ==
    IF IsPortAvailable(port, e)
    THEN <<Event("listen", ToString(port)), Event("close", ToString(port))>>
    ELSE <<Event("listen", ToString(port))>>

\* the SSH half of ValidatePortsAvailable, at position here of its caller
PortsSSH(here, monpc, okpc, errpc, ssh, mon) ==
    /\ pc = here
    /\ events' = events \o PortEvents(ssh, env)
    /\ IF ~IsPortAvailable(ssh, env)
       THEN /\ result' = Err("SSH port %d is already in use. Please choose a different port using --ssh-port",
                             ToString(ssh))
            /\ pc' = errpc
       ELSE /\ pc' = IF mon > 0 THEN monpc ELSE okpc
            /\ UNCHANGED result
    /\ UNCHANGED <<cfg, v, args, prevArgs, builds, env, tmpFiles>>

\* the monitor half of ValidatePortsAvailable, reached only when mon > 0
PortsMonitor(here, okpc, errpc, mon) ==
    /\ pc = here
    /\ events' = events \o PortEvents(mon, env)
    /\ IF ~IsPortAvailable(mon, env)
       THEN /\ result' = Err("monitor port %d is already in use. Please choose a different port using --monitor-port",
                             ToString(mon))
            /\ pc' = errpc
       ELSE /\ pc' = okpc
            /\ UNCHANGED result
    /\ UNCHANGED <<cfg, v, args, prevArgs, builds, env, tmpFiles>>

\* a call of vm.Validate() on a configured VM
ValidateCall ==
    /\ pc = "configured"
    /\ pc' = "v_binary"
    /\ UNCHANGED <<cfg, v, args, prevArgs, builds, env, tmpFiles, events, result>>

\* mutant of ValidateBinary: a missing binary is not reported
ValidateBinary_Ignored ==
    /\ pc = "v_binary"
    /\ events' = Append(events, Event("lookpath", QEMUBinary(v.kind)))
    /\ pc' = "v_ports_ssh"
    /\ UNCHANGED <<cfg, v, args, prevArgs, builds, env, tmpFiles, result>>

\* BaseVM.Validate step 1: ValidateQEMUBinary(vm.QEMUBinary())
ValidateBinary ==
    /\ pc = "v_binary"
    /\ events' = Append(events, Event("lookpath", QEMUBinary(v.kind)))
    /\ IF QEMUBinary(v.kind) \notin env.binaries
       THEN /\ result' = Err("QEMU binary '%s' not found in PATH. %s\nError: %v",
                             QEMUBinary(v.kind))
            /\ pc' = "v_returned"
       ELSE /\ pc' = "v_ports_ssh"
            /\ UNCHANGED result
    /\ UNCHANGED <<cfg, v, args, prevArgs, builds, env, tmpFiles>>

\* BaseVM.Validate step 2: ValidatePortsAvailable(v.SSHPort, v.MonitorPort)
ValidatePortsSSH ==
    PortsSSH("v_ports_ssh", "v_ports_mon", "v_disk", "v_returned",
             v.SSHPort, v.MonitorPort)

ValidatePortsMonitor ==
    PortsMonitor("v_ports_mon", "v_disk", "v_returned", v.MonitorPort)

\* BaseVM.Validate step 3: the disk path is set
ValidateDisk ==
    /\ pc = "v_disk"
    /\ result' = IF v.DiskPath = ""
                 THEN Err("disk image path is not set", "")
                 ELSE Ok
    /\ pc' = "v_returned"
    /\ UNCHANGED <<cfg, v, args, prevArgs, builds, env, tmpFiles, events>>

----------------------------------------------------------------------------
(* detector.DetectArchitecture *)

\* the characters of each disk path the model uses
PathChars(p) ==
    CASE p = "" -> <<>>
      [] p = "/tmp/disk.qcow2" ->
            <<"/", "t", "m", "p", "/", "d", "i", "s", "k", ".", "q", "c", "o", "w", "2">>
      [] p = "/tmp/missing.img" ->
            <<"/", "t", "m", "p", "/", "m", "i", "s", "s", "i", "n", "g", ".", "i", "m", "g">>
      [] p = "sles-aarch64.qcow2" ->
            <<"s", "l", "e", "s", "-", "a", "a", "r", "c", "h", "6", "4", ".", "q", "c", "o", "w", "2">>
      [] p = "Leap_X86_64.img" ->
            <<"L", "e", "a", "p", "_", "X", "8", "6", "_", "6", "4", ".", "i", "m", "g">>
      [] p = "vm@s390x.raw" ->
            <<"v", "m", "@", "s", "3", "9", "0", "x", ".", "r", "a", "w">>
      [] p = "ppc64le.img" ->
            <<"p", "p", "c", "6", "4", "l", "e", ".", "i", "m", "g">>
      [] p = "vm-s390x_AARCH64.raw" ->
            <<"v", "m", "-", "s", "3", "9", "0", "x", "_", "A", "A", "R", "C", "H", "6", "4", ".", "r", "a", "w">>
      [] p = "fedora.x86_64-s390x.img" ->
            <<"f", "e", "d", "o", "r", "a", ".", "x", "8", "6", "_", "6", "4", "-", "s", "3", "9", "0", "x", ".", "i", "m", "g">>

\* file(1) report: ELF 64-bit, x86-64
ReportX86 ==
    <<"E", "L", "F", " ", "6", "4", "-", "b", "i", "t", ",", " ", "x", "8", "6", "-", "6", "4">>

\* file(1) report: ELF, ARM aarch64
ReportARM ==
    <<"E", "L", "F", ",", " ", "A", "R", "M", " ", "a", "a", "r", "c", "h", "6", "4">>

\* file(1) report: ELF 64-bit PowerPC
ReportPPC ==
    <<"E", "L", "F", " ", "6", "4", "-", "b", "i", "t", " ", "P", "o", "w", "e", "r", "P", "C">>

\* file(1) report: ELF, IBM S/390
ReportS390 ==
    <<"E", "L", "F", ",", " ", "I", "B", "M", " ", "S", "/", "3", "9", "0">>

\* file(1) report: data
ReportData ==
    <<"d", "a", "t", "a">>

\* file(1) report: ELF 32-bit ARM
ReportARM32 ==
    <<"E", "L", "F", " ", "3", "2", "-", "b", "i", "t", " ", "A", "R", "M">>

\* file(1) report: aarch64 boot image
ReportNoElf ==
    <<"a", "a", "r", "c", "h", "6", "4", " ", "b", "o", "o", "t", " ", "i", "m", "a", "g", "e">>

\* a report with two signatures: ELF x86-64, ppc64 emulation
ReportTwo ==
    <<"E", "L", "F", " ", "x", "8", "6", "-", "6", "4", ",", " ", "p", "p", "c", "6", "4">>

\* strings.ToLower on one character
LowerChar(c) ==
    CASE c = "A" -> "a"
      [] c = "B" -> "b"
      [] c = "C" -> "c"
      [] c = "D" -> "d"
      [] c = "E" -> "e"
      [] c = "F" -> "f"
      [] c = "G" -> "g"
      [] c = "H" -> "h"
      [] c = "I" -> "i"
      [] c = "J" -> "j"
      [] c = "K" -> "k"
      [] c = "L" -> "l"
      [] c = "M" -> "m"
      [] c = "N" -> "n"
      [] c = "O" -> "o"
      [] c = "P" -> "p"
      [] c = "Q" -> "q"
      [] c = "R" -> "r"
      [] c = "S" -> "s"
      [] c = "T" -> "t"
      [] c = "U" -> "u"
      [] c = "V" -> "v"
      [] c = "W" -> "w"
      [] c = "X" -> "x"
      [] c = "Y" -> "y"
      [] c = "Z" -> "z"
      [] OTHER -> c

\* the characters of an architecture name
ArchChars(a) ==
    CASE a = "x86_64" -> <<"x", "8", "6", "_", "6", "4">>
      [] a = "aarch64" -> <<"a", "a", "r", "c", "h", "6", "4">>
      [] a = "ppc64le" -> <<"p", "p", "c", "6", "4", "l", "e">>
      [] a = "s390x" -> <<"s", "3", "9", "0", "x">>

\* strings.ToLower
ToLower(s) == [i \in 1..Len(s) |-> LowerChar(s[i])]

\* strings.Contains
Contains(s, sub) ==
    \E i \in 0..(Len(s) - Len(sub)) : SubSeq(s, i + 1, i + Len(sub)) = sub

\* mutant of FilenameHits: the name counts wherever it occurs
FilenameHits_NoSeparator(path) ==
    { i \in 1..Len(SupportedArchitectures) :
        Contains(ToLower(PathChars(path)), ArchChars(SupportedArchitectures[i])) }

\* the architectures of SupportedArchitectures that occur after a separator
FilenameHits(path) ==
    { i \in 1..Len(SupportedArchitectures) :
        LET a == ArchChars(SupportedArchitectures[i])
            l == ToLower(PathChars(path))
        IN \/ Contains(l, <<"@">> \o a)
           \/ Contains(l, <<"-">> \o a)
           \/ Contains(l, <<"_">> \o a) }

\* detectByFilename: the first hit in the order of SupportedArchitectures
detectByFilename(path) ==
    IF FilenameHits(path) = {}
    THEN [arch |-> "",
          err |-> Err("could not deduce architecture from filename for '%s'", path)]
    ELSE [arch |-> SupportedArchitectures[
                      CHOOSE i \in FilenameHits(path) :
                          \A j \in FilenameHits(path) : i <= j],
          err |-> Ok]

\* mutant of ClassifyReport: the report need not mention ELF
ClassifyReport_NoElf(report, path) ==
    LET output == ToLower(report)
    IN  IF Contains(output, ArchChars("aarch64"))
        THEN [arch |-> "aarch64", err |-> Ok]
        ELSE IF \/ Contains(output, <<"p", "o", "w", "e", "r", "p", "c">>)
                \/ Contains(output, <<"p", "p", "c", "6", "4">>)
        THEN [arch |-> "ppc64le", err |-> Ok]
        ELSE IF \/ Contains(output, <<"s", "3", "9", "0">>)
                \/ Contains(output, <<"s", "/", "3", "9", "0">>)
        THEN [arch |-> "s390x", err |-> Ok]
        ELSE IF Contains(output, <<"x", "8", "6", "-", "6", "4">>)
        THEN [arch |-> "x86_64", err |-> Ok]
        ELSE [arch |-> "",
              err |-> Err("virt-cat/file did not reveal a clear ELF architecture for '%s'; output: %s",
                          path)]

\* the classification of file(1)'s report at the end of detectByVirtCat
ClassifyReport(report, path) ==
    LET output == ToLower(report)
        elf == Contains(output, <<"e", "l", "f">>)
    IN  IF elf /\ Contains(output, ArchChars("aarch64"))
        THEN [arch |-> "aarch64", err |-> Ok]
        ELSE IF elf /\ (\/ Contains(output, <<"p", "o", "w", "e", "r", "p", "c">>)
                        \/ Contains(output, <<"p", "p", "c", "6", "4">>))
        THEN [arch |-> "ppc64le", err |-> Ok]
        ELSE IF elf /\ (\/ Contains(output, <<"s", "3", "9", "0">>)
                        \/ Contains(output, <<"s", "/", "3", "9", "0">>))
        THEN [arch |-> "s390x", err |-> Ok]
        ELSE IF elf /\ Contains(output, <<"x", "8", "6", "-", "6", "4">>)
        THEN [arch |-> "x86_64", err |-> Ok]
        ELSE [arch |-> "",
              err |-> Err("virt-cat/file did not reveal a clear ELF architecture for '%s'; output: %s",
                          path)]

\* detectByVirtCat on host e; e.virtcat.fail names the step that fails, if any
detectByVirtCat(path, e) ==
    IF "virt-cat" \notin e.binaries
    THEN [arch |-> "",
          err |-> Err("virt-cat not found; please install guestfs-tools (package name may be 'guestfs-tools' or 'libguestfs-tools')", "")]
    ELSE IF e.virtcat.fail = "pipe"
    THEN [arch |-> "", err |-> Err("failed to prepare virt-cat pipe: %w", "")]
    ELSE IF e.virtcat.fail = "file_start"
    THEN [arch |-> "", err |-> Err("failed to start file command: %w", "")]
    ELSE IF e.virtcat.fail = "virt_start"
    THEN [arch |-> "", err |-> Err("virt-cat failed to start: %w", "")]
    ELSE IF e.virtcat.fail = "virt_wait"
    THEN [arch |-> "", err |-> Err("virt-cat failed: %w; output: %s", "")]
    ELSE IF e.virtcat.fail = "file_wait"
    THEN [arch |-> "", err |-> Err("file command failed: %w; output: %s", "")]
    ELSE ClassifyReport(e.virtcat.report, path)

\* DetectArchitecture, entry: an empty disk path is refused at once
DetectStart ==
    /\ pc = "detect"
    /\ IF cfg.DiskPath = ""
       THEN /\ result' = Err("disk path is empty", "")
            /\ pc' = "detect_returned"
       ELSE /\ pc' = "detect_virtcat"
            /\ UNCHANGED result
    /\ UNCHANGED <<cfg, v, args, prevArgs, builds, env, tmpFiles, events>>

\* mutant of DetectVirtCat: a guest-inspection failure is returned at once
DetectVirtCat_Fatal ==
    /\ pc = "detect_virtcat"
    /\ events' = Append(events, Event("detectByVirtCat", cfg.DiskPath))
    /\ LET r == detectByVirtCat(cfg.DiskPath, env) IN
       /\ result' = IF r.err = Ok THEN [kind |-> "detected", arg |-> r.arch] ELSE r.err
       /\ pc' = "detect_returned"
    /\ UNCHANGED <<cfg, v, args, prevArgs, builds, env, tmpFiles>>

\* method 1: guest inspection; its error is dropped and method 2 follows
DetectVirtCat ==
    /\ pc = "detect_virtcat"
    /\ events' = Append(events, Event("detectByVirtCat", cfg.DiskPath))
    /\ LET r == detectByVirtCat(cfg.DiskPath, env) IN
       IF r.err = Ok
       THEN /\ result' = [kind |-> "detected", arg |-> r.arch]
            /\ pc' = "detect_returned"
       ELSE /\ pc' = "detect_filename"
            /\ UNCHANGED result
    /\ UNCHANGED <<cfg, v, args, prevArgs, builds, env, tmpFiles>>

\* mutant of DetectFilename: the heuristic's own error is returned
DetectFilename_OwnError ==
    /\ pc = "detect_filename"
    /\ events' = Append(events, Event("detectByFilename", cfg.DiskPath))
    /\ LET r == detectByFilename(cfg.DiskPath) IN
       result' = IF r.err = Ok THEN [kind |-> "detected", arg |-> r.arch] ELSE r.err
    /\ pc' = "detect_returned"
    /\ UNCHANGED <<cfg, v, args, prevArgs, builds, env, tmpFiles>>

\* method 2: the filename heuristic; when it fails too, the combined error
DetectFilename ==
    /\ pc = "detect_filename"
    /\ events' = Append(events, Event("detectByFilename", cfg.DiskPath))
    /\ LET r == detectByFilename(cfg.DiskPath) IN
       result' = IF r.err = Ok
                 THEN [kind |-> "detected", arg |-> r.arch]
                 ELSE Err("could not detect architecture from disk image '%s'. Please specify it explicitly with --arch flag",
                          cfg.DiskPath)
    /\ pc' = "detect_returned"
    /\ UNCHANGED <<cfg, v, args, prevArgs, builds, env, tmpFiles>>

----------------------------------------------------------------------------
(* RunVM *)

\* mutant of RunVMPrint: the confirmation is skipped
RunVMPrint_NoConfirm ==
    /\ pc = "built"
    /\ events' = Append(events, Event("print", QEMUBinary(v.kind)))
    /\ pc' = "runvm_spawn"
    /\ UNCHANGED <<cfg, v, args, prevArgs, builds, env, tmpFiles, result>>

\* RunVM: the command is logged first
RunVMPrint ==
    /\ pc = "built"
    /\ events' = Append(events, Event("print", QEMUBinary(v.kind)))
    /\ pc' = IF v.Confirm THEN "runvm_confirm" ELSE "runvm_spawn"
    /\ UNCHANGED <<cfg, v, args, prevArgs, builds, env, tmpFiles, result>>

\* how fmt.Scanln(&input) on standard input can return: after a line (empty
\* or of one word), after the first word of a longer line whose rest stays
\* unread, or at once at the end of the input; RunVM ignores which
StdinOutcomes == {"line", "partial", "eof"}

\* RunVM with confirm: the prompt, and one fmt.Scanln on standard input
RunVMConfirm ==
    /\ pc = "runvm_confirm"
    /\ \E outcome \in StdinOutcomes :
          events' = Append(events, Event("scanln", outcome))
    /\ pc' = "runvm_spawn"
    /\ UNCHANGED <<cfg, v, args, prevArgs, builds, env, tmpFiles, result>>

\* how cmd.Run() can end: the child exits with a status, is killed by a
\* signal, or cannot be started
ChildOutcomes == {"exit0", "exit1", "exit3", "signal", "nostart"}

\* exec.ExitError.ExitCode(): the exit status, -1 for a child that was killed
ExitCode(outcome) ==
    CASE outcome = "exit0"  -> 0
      [] outcome = "exit1"  -> 1
      [] outcome = "exit3"  -> 3
      [] outcome = "signal" -> -1

\* mutant of RunVMResult: every failure of cmd.Run() is reported as an exit
RunVMResult_AllExits(outcome) ==
    IF outcome = "exit0" THEN Ok
    ELSE IF outcome = "nostart" THEN Err("QEMU exited with status %d", "-1")
    ELSE Err("QEMU exited with status %d", ToString(ExitCode(outcome)))

\* the error RunVM returns for an outcome of cmd.Run()
RunVMResult(outcome) ==
    IF outcome = "exit0" THEN Ok
    ELSE IF outcome = "nostart" THEN Err("failed to start QEMU: %w", "")
    ELSE Err("QEMU exited with status %d", ToString(ExitCode(outcome)))

\* RunVM: cmd.Run() and the mapping of its outcome
RunVMSpawn ==
    /\ pc = "runvm_spawn"
    /\ \E outcome \in ChildOutcomes :
          /\ events' = events \o << Event("exec", QEMUBinary(v.kind)),
                                    Event("child", outcome) >>
          /\ result' = RunVMResult(outcome)
    /\ pc' = "done"
    /\ UNCHANGED <<cfg, v, args, prevArgs, builds, env, tmpFiles>>

----------------------------------------------------------------------------
(* cmd/q2boot: initConfig *)

DefaultCPU == 2
DefaultRAMGb == 2

DefaultConfig ==
    [ Arch |-> "", CPU |-> 2, RAMGb |-> 2, SSHPort |-> 2222, MonitorPort |-> 0,
      LogFile |-> "q2boot.log", WriteMode |-> FALSE, Graphical |-> FALSE,
      Confirm |-> FALSE, DiskPath |-> "" ]

\* &config.VMConfig{}; it also stands for the nil cfg before initConfig
ZeroConfig ==
    [ Arch |-> "", CPU |-> 0, RAMGb |-> 0, SSHPort |-> 0, MonitorPort |-> 0,
      LogFile |-> "", WriteMode |-> FALSE, Graphical |-> FALSE,
      Confirm |-> FALSE, DiskPath |-> "" ]

\* the flag variables when no flag is given
NoFlags ==
    [ Arch |-> "", CPU |-> 0, RAM |-> 0, SSHPort |-> 0, MonitorPort |-> 0,
      LogFile |-> "", WriteMode |-> FALSE, Graphical |-> FALSE, Confirm |-> FALSE,
      changed |-> {} ]

\* the configuration file: state is "ok" (read), "missing", "malformed" (not
\* JSON), "badtype" (read, but a value does not decode into VMConfig) or
\* "nodir" (the configuration directory cannot be created); keys are the
\* settings an "ok" file holds
ConfigFile(state, keys, val) ==
    [ state |-> state,
      keys  |-> IF state = "ok" THEN keys ELSE {},
      val   |-> [ k \in DOMAIN ZeroConfig |->
                    IF state = "ok" /\ k \in keys THEN val[k] ELSE ZeroConfig[k] ] ]

NoConfigFile == ConfigFile("missing", {}, ZeroConfig)

\* mutant of ViperGet: the bound flags are not looked at
ViperGet_IgnoresFlags(f, file, flag, flagValue, key, default) ==
    IF key \in file.keys THEN file.val[key]
    ELSE default

\* viper's value of a key with a bound flag: the flag when it was changed,
\* else the file's value, else the default set with SetDefault (or, without
\* one, the flag's default)
ViperGet(f, file, flag, flagValue, key, default) ==
    IF flag \in f.changed THEN flagValue
    ELSE IF key \in file.keys THEN file.val[key]
    ELSE default

\* viper.Unmarshal(cfg): the key ram_gb has no bound flag (--ram is bound to
\* the key "ram", which VMConfig does not have)
Unmarshal(f, file) ==
    [ Arch        |-> ViperGet(f, file, "arch", f.Arch, "Arch", ""),
      CPU         |-> ViperGet(f, file, "cpu", f.CPU, "CPU", DefaultCPU),
      RAMGb       |-> IF "RAMGb" \in file.keys THEN file.val.RAMGb ELSE DefaultRAMGb,
      SSHPort     |-> ViperGet(f, file, "ssh-port", f.SSHPort, "SSHPort", DefaultSSHPort),
      MonitorPort |-> ViperGet(f, file, "monitor-port", f.MonitorPort, "MonitorPort", 0),
      LogFile     |-> ViperGet(f, file, "log-file", f.LogFile, "LogFile", DefaultLogFile),
      WriteMode   |-> ViperGet(f, file, "write-mode", f.WriteMode, "WriteMode", FALSE),
      Graphical   |-> ViperGet(f, file, "graphical", f.Graphical, "Graphical", FALSE),
      Confirm     |-> ViperGet(f, file, "confirm", f.Confirm, "Confirm", FALSE),
      DiskPath    |-> "" ]

\* initConfig, run by cobra after the flags are parsed
InitConfig ==
    /\ pc = "init_config"
    /\ cfg' = CASE env.file.state = "nodir"   -> cfg
                 [] env.file.state = "badtype" -> DefaultConfig
                 [] OTHER -> Unmarshal(env.flags, env.file)
    /\ events' = IF env.file.state = "missing"
                 THEN Append(events, Event("writeconfig", "config.json"))
                 ELSE events
    /\ pc' = "start"
    /\ UNCHANGED <<v, args, prevArgs, builds, env, tmpFiles, result>>

----------------------------------------------------------------------------
(* cmd/q2boot: applyFlagOverrides and runQ2BootE *)

\* mutant of applyFlagOverrides: --ram is not applied
applyFlagOverrides_NoRAM(f, c, diskPath) ==
    [ Arch        |-> IF f.Arch # "" THEN f.Arch ELSE c.Arch,
      CPU         |-> IF f.CPU > 0 THEN f.CPU ELSE c.CPU,
      RAMGb       |-> c.RAMGb,
      SSHPort     |-> IF f.SSHPort > 0 THEN f.SSHPort ELSE c.SSHPort,
      MonitorPort |-> IF "monitor-port" \in f.changed THEN f.MonitorPort ELSE c.MonitorPort,
      LogFile     |-> IF f.LogFile # "" THEN f.LogFile ELSE c.LogFile,
      WriteMode   |-> IF "write-mode" \in f.changed THEN f.WriteMode ELSE c.WriteMode,
      Graphical   |-> IF "graphical" \in f.changed THEN f.Graphical ELSE c.Graphical,
      Confirm     |-> IF "confirm" \in f.changed THEN f.Confirm ELSE c.Confirm,
      DiskPath    |-> diskPath ]

\* the configuration after applyFlagOverrides(cmd, f, c, diskPath)
applyFlagOverrides(f, c, diskPath) ==
    [ Arch        |-> IF f.Arch # "" THEN f.Arch ELSE c.Arch,
      CPU         |-> IF f.CPU > 0 THEN f.CPU ELSE c.CPU,
      RAMGb       |-> IF f.RAM > 0 THEN f.RAM ELSE c.RAMGb,
      SSHPort     |-> IF f.SSHPort > 0 THEN f.SSHPort ELSE c.SSHPort,
      MonitorPort |-> IF "monitor-port" \in f.changed THEN f.MonitorPort ELSE c.MonitorPort,
      LogFile     |-> IF f.LogFile # "" THEN f.LogFile ELSE c.LogFile,
      WriteMode   |-> IF "write-mode" \in f.changed THEN f.WriteMode ELSE c.WriteMode,
      Graphical   |-> IF "graphical" \in f.changed THEN f.Graphical ELSE c.Graphical,
      Confirm     |-> IF "confirm" \in f.changed THEN f.Confirm ELSE c.Confirm,
      DiskPath    |-> diskPath ]

\* runQ2BootE, first statement; cfg is nil when initConfig gave up, and the
\* assignment to cfg.DiskPath then panics
ApplyFlagOverrides ==
    /\ pc = "start"
    /\ IF env.file.state = "nodir"
       THEN /\ result' = Err("panic: runtime error: invalid memory address or nil pointer dereference", "")
            /\ pc' = "done"
            /\ UNCHANGED cfg
       ELSE /\ cfg' = applyFlagOverrides(env.flags, cfg, env.diskArg)
            /\ pc' = IF "arch" \in env.flags.changed THEN "cfg_validate" ELSE "detect"
            /\ UNCHANGED result
    /\ UNCHANGED <<v, args, prevArgs, builds, env, tmpFiles, events>>

\* mutant of ArchResolved: an architecture of the configuration file is kept
ArchResolved_KeepsFileArch ==
    /\ pc = "detect_returned"
    /\ IF result.kind = "detected" \/ cfg.Arch # ""
       THEN /\ cfg' = IF cfg.Arch # "" THEN cfg ELSE [cfg EXCEPT !.Arch = result.arg]
            /\ result' = NoResult
            /\ pc' = "cfg_validate"
       ELSE /\ result' = Wrap("architecture not specified and automatic detection failed: %w",
                              result)
            /\ pc' = "done"
            /\ UNCHANGED cfg
    /\ UNCHANGED <<v, args, prevArgs, builds, env, tmpFiles, events>>

\* after detectArchitecture: the detected value replaces cfg.Arch, or the run ends
ArchResolved ==
    /\ pc = "detect_returned"
    /\ IF result.kind = "detected"
       THEN /\ cfg' = [cfg EXCEPT !.Arch = result.arg]
            /\ result' = NoResult
            /\ pc' = "cfg_validate"
       ELSE /\ result' = Wrap("architecture not specified and automatic detection failed: %w",
                              result)
            /\ pc' = "done"
            /\ UNCHANGED cfg
    /\ UNCHANGED <<v, args, prevArgs, builds, env, tmpFiles, events>>

\* mutant of AfterCfgValidate: the error of cfg.Validate() is not looked at
AfterCfgValidate_Ignored ==
    /\ pc = "cfg_returned"
    /\ result' = NoResult
    /\ pc' = "ports_ssh"
    /\ UNCHANGED <<cfg, v, args, prevArgs, builds, env, tmpFiles, events>>

\* cfg.Validate() returned: its error ends the run
AfterCfgValidate ==
    /\ pc = "cfg_returned"
    /\ IF result = Ok
       THEN /\ result' = NoResult
            /\ pc' = "ports_ssh"
       ELSE /\ result' = Wrap("configuration validation failed: %w", result)
            /\ pc' = "done"
    /\ UNCHANGED <<cfg, v, args, prevArgs, builds, env, tmpFiles, events>>

\* vm.ValidatePortsAvailable(cfg.SSHPort, cfg.MonitorPort)
PipePortsSSH ==
    PortsSSH("ports_ssh", "ports_mon", "arch_check", "done",
             cfg.SSHPort, cfg.MonitorPort)

PipePortsMonitor ==
    PortsMonitor("ports_mon", "arch_check", "done", cfg.MonitorPort)

ArchCheck ==
    /\ pc = "arch_check"
    /\ IF ~IsArchSupported(cfg.Arch)
       THEN /\ result' = Err("invalid architecture '%s'. Valid options: %v", cfg.Arch)
            /\ pc' = "done"
       ELSE /\ pc' = "create"
            /\ UNCHANGED result
    /\ UNCHANGED <<cfg, v, args, prevArgs, builds, env, tmpFiles, events>>

\* mutant of AfterValidate: the error of vm.Validate() is not looked at
AfterValidate_Ignored ==
    /\ pc = "v_returned"
    /\ result' = NoResult
    /\ pc' = "run"
    /\ UNCHANGED <<cfg, v, args, prevArgs, builds, env, tmpFiles, events>>

\* virtualMachine.Validate() returned: its error ends the run
AfterValidate ==
    /\ pc = "v_returned"
    /\ IF result = Ok
       THEN /\ result' = NoResult
            /\ pc' = "run"
       ELSE /\ result' = Wrap("VM validation failed: %w", result)
            /\ pc' = "done"
    /\ UNCHANGED <<cfg, v, args, prevArgs, builds, env, tmpFiles, events>>

\* virtualMachine.Run(): BaseVM.run builds the arguments, then RunVM
Run ==
    /\ pc = "run"
    /\ args' = <<>>
    /\ pc' = "build_arch"
    /\ UNCHANGED <<cfg, v, prevArgs, builds, env, tmpFiles, events, result>>

\* a Go panic that nothing recovers ends the process with status 2
IsPanic(r) ==
    IsErr(r) /\ r.fmt = "panic: runtime error: invalid memory address or nil pointer dereference"

\* mutant of ProcessExitCode: the status of the child is handed on
ProcessExitCode_Propagated(r) ==
    IF r = Ok THEN 0
    ELSE IF IsPanic(r) THEN 2
    ELSE IF r.fmt = "QEMU exited with status %d" /\ r.arg = "3" THEN 3
    ELSE 1

\* the status the process ends with when rootCmd.Execute() gave r
ProcessExitCode(r) ==
    IF r = Ok THEN 0
    ELSE IF IsPanic(r) THEN 2
    ELSE 1

\* main, after rootCmd.Execute(): os.Exit(1) on an error, a normal return
\* otherwise
MainExit ==
    /\ pc = "done"
    /\ events' = Append(events, Event("exit", ToString(ProcessExitCode(result))))
    /\ pc' = "exited"
    /\ UNCHANGED <<cfg, v, args, prevArgs, builds, env, tmpFiles, result>>

----------------------------------------------------------------------------
(* Hosts and command lines the specifications draw from *)

QEMUBinaries ==
    {"qemu-system-x86_64", "qemu-system-aarch64", "qemu-system-ppc64", "qemu-system-s390x"}

\* a host with nothing installed, nothing listening and no files
EmptyHost ==
    [ files |-> {}, statErr |-> {}, tmpOK |-> TRUE, binaries |-> {},
      busyPorts |-> {}, virtcat |-> [fail |-> "none", report |-> <<>>],
      flags |-> NoFlags, diskArg |-> "", file |-> NoConfigFile ]

----------------------------------------------------------------------------
(* Specification of the command builder: a configuration and a host are    *)
(* chosen, the VM is created and configured, and its arguments are built   *)
(* MaxBuilds times.                                                        *)

BuildArchs == {"x86_64", "aarch64", "ppc64le", "s390x", "riscv64", "", "X86_64"}
BuildCPUs == {1, 4}
BuildRAMs == {2, 8}
BuildSSHPorts == {2222}
BuildMonitorPorts == {0, 4444}
BuildLogFiles == {"", "q2boot.log"}
BuildDiskPaths == {"", "/tmp/disk.qcow2"}

NoVM == NewBaseVM("none")

InitBuild ==
    /\ pc = "create"
    /\ cfg \in [ Arch : BuildArchs, CPU : BuildCPUs, RAMGb : BuildRAMs,
                 SSHPort : BuildSSHPorts, MonitorPort : BuildMonitorPorts,
                 LogFile : BuildLogFiles, WriteMode : BOOLEAN,
                 Graphical : BOOLEAN, Confirm : {FALSE},
                 DiskPath : BuildDiskPaths ]
    /\ v = NoVM
    /\ args = <<>>
    /\ prevArgs = <<>>
    /\ builds = 0
    /\ env \in { [EmptyHost EXCEPT !.files = f, !.tmpOK = t] :
                    f \in SUBSET Range(aavmfCodePaths), t \in BOOLEAN }
    /\ (cfg.Arch # "aarch64" => env.files = {} /\ env.tmpOK)
    /\ tmpFiles = {}
    /\ events = <<>>
    /\ result = NoResult

NextBuild ==
    \/ CreateVM
    \/ GetQEMUBinaryForArch
    \/ Configure
    \/ BuildArgsCall
    \/ BuildArch
    \/ BuildCommon
    \/ BuildDisk
    \/ BuildNet
    \/ BuildAudio
    \/ BuildDisplay
    \/ BuildMonitor
    \/ Rebuild

SpecBuild == InitBuild /\ [][NextBuild]_vars

----------------------------------------------------------------------------
(* Specification of Configure: a VM is created, its disk path may be set   *)
(* through SetDiskPath, and it is configured                               *)

VMSSHPorts == {2222, 2223}
VMLogFiles == {"", "test.log"}

InitVM ==
    /\ pc = "create"
    /\ cfg \in [ Arch : Range(SupportedArchitectures) \cup {""}, CPU : BuildCPUs,
                 RAMGb : BuildRAMs, SSHPort : VMSSHPorts,
                 MonitorPort : BuildMonitorPorts, LogFile : VMLogFiles,
                 WriteMode : BOOLEAN, Graphical : BOOLEAN, Confirm : BOOLEAN,
                 DiskPath : BuildDiskPaths ]
    /\ v = NoVM
    /\ args = <<>>
    /\ prevArgs = <<>>
    /\ builds = 0
    /\ env = EmptyHost
    /\ tmpFiles = {}
    /\ events = <<>>
    /\ result = NoResult

NextVM ==
    \/ CreateVM
    \/ SetDiskPath
    \/ Configure

SpecVM == InitVM /\ [][NextVM]_vars

----------------------------------------------------------------------------
(* Specification of VMConfig.Validate called on its own *)

CfgCPUs == {0, 1, 2, 32, 33}
CfgRAMs == {0, 1, 2, 128, 129}
CfgSSHPorts == {0, 80, 1023, 1024, 2222, 65535}
CfgMonitorPorts == {0, 1, 512, 1023, 1024, 4444, 65535}
CfgDiskPaths == {"", "/tmp/disk.qcow2", "/tmp/missing.img"}

InitCfg ==
    /\ pc = "cfg_validate"
    /\ cfg \in { [DefaultConfig EXCEPT !.CPU = c, !.RAMGb = r, !.SSHPort = s,
                                       !.MonitorPort = m, !.DiskPath = d] :
                    c \in CfgCPUs, r \in CfgRAMs, s \in CfgSSHPorts,
                    m \in CfgMonitorPorts, d \in CfgDiskPaths }
    /\ v = NoVM
    /\ args = <<>>
    /\ prevArgs = <<>>
    /\ builds = 0
    /\ env \in { [EmptyHost EXCEPT !.files = {"/tmp/disk.qcow2"}, !.statErr = x] :
                    x \in {{}, {"/tmp/missing.img"}} }
    /\ tmpFiles = {}
    /\ events = <<>>
    /\ result = NoResult

NextCfg == CfgValidate

SpecCfg == InitCfg /\ [][NextCfg]_vars

----------------------------------------------------------------------------
(* Specification of vm.Validate() called on a created and configured VM *)

ValArchs == {"x86_64", "aarch64", "ppc64le", "s390x"}
ValSSHPorts == {2222}
ValMonitorPorts == {0, 4444, 2222}
ValDiskPaths == {"", "/tmp/disk.qcow2", "/tmp/missing.img"}

InitValidate ==
    /\ pc = "create"
    /\ cfg \in { [DefaultConfig EXCEPT !.Arch = a, !.SSHPort = s,
                                       !.MonitorPort = m, !.DiskPath = d] :
                    a \in ValArchs, s \in ValSSHPorts,
                    m \in ValMonitorPorts, d \in ValDiskPaths }
    /\ v = NoVM
    /\ args = <<>>
    /\ prevArgs = <<>>
    /\ builds = 0
    /\ env \in { [EmptyHost EXCEPT !.files = {"/tmp/disk.qcow2"},
                                   !.binaries = b, !.busyPorts = p] :
                    b \in {{}, QEMUBinaries},
                    p \in SUBSET (ValSSHPorts \cup (ValMonitorPorts \ {0})) }
    /\ tmpFiles = {}
    /\ events = <<>>
    /\ result = NoResult

NextValidate ==
    \/ CreateVM
    \/ Configure
    \/ ValidateCall
    \/ ValidateBinary
    \/ ValidatePortsSSH
    \/ ValidatePortsMonitor
    \/ ValidateDisk

SpecValidate == InitValidate /\ [][NextValidate]_vars

----------------------------------------------------------------------------
(* Specification of DetectArchitecture called on its own *)

DetPaths ==
    { "", "/tmp/disk.qcow2", "sles-aarch64.qcow2", "Leap_X86_64.img",
      "vm@s390x.raw", "ppc64le.img", "fedora.x86_64-s390x.img",
      "vm-s390x_AARCH64.raw" }

VirtCatFailures ==
    {"none", "pipe", "file_start", "virt_start", "virt_wait", "file_wait"}

Reports ==
    { ReportX86, ReportARM, ReportPPC, ReportS390, ReportData, ReportARM32,
      ReportNoElf, ReportTwo }

InitDetect ==
    /\ pc = "detect"
    /\ cfg \in { [DefaultConfig EXCEPT !.DiskPath = d] : d \in DetPaths }
    /\ v = NoVM
    /\ args = <<>>
    /\ prevArgs = <<>>
    /\ builds = 0
    /\ env \in { [EmptyHost EXCEPT !.binaries = b,
                                   !.virtcat = [fail |-> f, report |-> r]] :
                    b \in {{}, {"virt-cat"}}, f \in VirtCatFailures, r \in Reports }
    /\ tmpFiles = {}
    /\ events = <<>>
    /\ result = NoResult

NextDetect ==
    \/ DetectStart
    \/ DetectVirtCat
    \/ DetectFilename

SpecDetect == InitDetect /\ [][NextDetect]_vars

----------------------------------------------------------------------------
(* Specification of how the configuration is finalized: initConfig,        *)
(* applyFlagOverrides and the resolution of the architecture                *)

\* what the file of the main package's tests holds, and a monitor port
FileValues ==
    [ Arch |-> "s390x", CPU |-> 8, RAMGb |-> 16, SSHPort |-> 3333,
      MonitorPort |-> 4444, LogFile |-> "file.log", WriteMode |-> TRUE,
      Graphical |-> TRUE, Confirm |-> TRUE, DiskPath |-> "" ]

\* the settings of a file go in these groups
FileKeyGroups ==
    { {"Arch"}, {"CPU"}, {"RAMGb"}, {"SSHPort", "LogFile"}, {"MonitorPort"},
      {"WriteMode", "Graphical", "Confirm"} }

ConfFiles ==
    { ConfigFile("ok", UNION g, FileValues) : g \in SUBSET FileKeyGroups }
    \cup { ConfigFile(st, {}, ZeroConfig) :
             st \in {"missing", "malformed", "badtype", "nodir"} }

\* a flag is absent, or given with a value that may be the zero value
ConfFlagArchs == {[given |-> FALSE, x |-> ""], [given |-> TRUE, x |-> ""],
                  [given |-> TRUE, x |-> "x86_64"]}
ConfFlagCPUs == {[given |-> FALSE, x |-> 0], [given |-> TRUE, x |-> 0],
                 [given |-> TRUE, x |-> 4]}
ConfFlagRAMs == {[given |-> FALSE, x |-> 0], [given |-> TRUE, x |-> 0],
                 [given |-> TRUE, x |-> 8]}
ConfFlagSSHPorts == {[given |-> FALSE, x |-> 0], [given |-> TRUE, x |-> 0],
                     [given |-> TRUE, x |-> 4444]}
ConfFlagBools == {[given |-> FALSE, x |-> FALSE], [given |-> TRUE, x |-> FALSE],
                  [given |-> TRUE, x |-> TRUE]}

ConfFlags ==
    { [ Arch |-> a.x, CPU |-> c.x, RAM |-> r.x,
        SSHPort |-> sl.x,
        LogFile |-> IF sl.x # 0 THEN "vm.log" ELSE "",
        MonitorPort |-> 0,
        WriteMode |-> b.x, Graphical |-> b.x, Confirm |-> b.x,
        changed |-> (IF a.given THEN {"arch"} ELSE {}) \cup
                    (IF c.given THEN {"cpu"} ELSE {}) \cup
                    (IF r.given THEN {"ram"} ELSE {}) \cup
                    (IF sl.given THEN {"ssh-port", "log-file"} ELSE {}) \cup
                    (IF m THEN {"monitor-port"} ELSE {}) \cup
                    (IF b.given THEN {"write-mode", "graphical", "confirm"} ELSE {}) ] :
        a \in ConfFlagArchs, c \in ConfFlagCPUs, r \in ConfFlagRAMs,
        sl \in ConfFlagSSHPorts, m \in BOOLEAN, b \in ConfFlagBools }

ConfDiskArgs == {"sles-aarch64.qcow2", "/tmp/disk.qcow2"}

InitConfigure ==
    /\ pc = "init_config"
    /\ cfg = ZeroConfig
    /\ v = NoVM
    /\ args = <<>>
    /\ prevArgs = <<>>
    /\ builds = 0
    /\ env \in { [EmptyHost EXCEPT !.files = ConfDiskArgs, !.flags = f,
                                   !.diskArg = d, !.file = cf] :
                    f \in ConfFlags, d \in ConfDiskArgs, cf \in ConfFiles }
    /\ tmpFiles = {}
    /\ events = <<>>
    /\ result = NoResult

NextConfigure ==
    \/ InitConfig
    \/ ApplyFlagOverrides
    \/ DetectStart
    \/ DetectVirtCat
    \/ DetectFilename
    \/ ArchResolved
    \/ CfgValidate

SpecConfigure == InitConfigure /\ [][NextConfigure]_vars

----------------------------------------------------------------------------
(* Specification of one run of the launch pipeline, runQ2BootE *)

PipeFileArchs == {"", "s390x"}
PipeFileCPUs == {2, 0}
PipeFileSSHPorts == {2222, 80}
PipeFileMonitorPorts == {0, 4444, 2222}
PipeFlagArchs == {"", "x86_64", "riscv64"}
PipeFlagCPUs == {0, 4}
PipeDiskArgs == {"", "sles-aarch64.qcow2", "/tmp/missing.img"}

\* a flag counts as changed when it was given on the command line
PipeFlags ==
    { [NoFlags EXCEPT !.Arch = a, !.CPU = c, !.Confirm = k,
                      !.changed = (IF a # "" THEN {"arch"} ELSE {}) \cup
                                  (IF c # 0 THEN {"cpu"} ELSE {}) \cup
                                  (IF k THEN {"confirm"} ELSE {}) \cup m] :
        a \in PipeFlagArchs, c \in PipeFlagCPUs, k \in BOOLEAN,
        m \in {{}, {"monitor-port"}} }

PipeHosts ==
    { [EmptyHost EXCEPT !.files = {"sles-aarch64.qcow2"},
                        !.binaries = b \cup vc,
                        !.busyPorts = p,
                        !.virtcat = [fail |-> "none", report |-> r]] :
        b \in {{}, QEMUBinaries}, vc \in {{}, {"virt-cat"}},
        p \in {{}, {2222}, {4444}, {80}},
        r \in {ReportX86, ReportData} }

\* configuration files: a setting is in the file when it differs from the
\* default; and one file of each kind that cannot be used
PipeFiles ==
    { ConfigFile("ok",
                 (IF a # "" THEN {"Arch"} ELSE {}) \cup
                 (IF c # DefaultCPU THEN {"CPU"} ELSE {}) \cup
                 (IF s # DefaultSSHPort THEN {"SSHPort"} ELSE {}) \cup
                 (IF m # 0 THEN {"MonitorPort"} ELSE {}),
                 [ZeroConfig EXCEPT !.Arch = a, !.CPU = c, !.SSHPort = s,
                                    !.MonitorPort = m]) :
        a \in PipeFileArchs, c \in PipeFileCPUs,
        s \in PipeFileSSHPorts, m \in PipeFileMonitorPorts }
    \cup { ConfigFile(st, {}, ZeroConfig) : st \in {"missing", "badtype", "nodir"} }

Init ==
    /\ pc = "init_config"
    /\ cfg = ZeroConfig
    /\ v = NoVM
    /\ args = <<>>
    /\ prevArgs = <<>>
    /\ builds = 0
    /\ env \in { [h EXCEPT !.flags = f, !.diskArg = d, !.file = cf] :
                    h \in PipeHosts, f \in PipeFlags, d \in PipeDiskArgs,
                    cf \in PipeFiles }
    /\ tmpFiles = {}
    /\ events = <<>>
    /\ result = NoResult

Next ==
    \/ InitConfig
    \/ ApplyFlagOverrides
    \/ DetectStart
    \/ DetectVirtCat
    \/ DetectFilename
    \/ ArchResolved
    \/ CfgValidate
    \/ AfterCfgValidate
    \/ PipePortsSSH
    \/ PipePortsMonitor
    \/ ArchCheck
    \/ CreateVM
    \/ Configure
    \/ ValidateCall
    \/ ValidateBinary
    \/ ValidatePortsSSH
    \/ ValidatePortsMonitor
    \/ ValidateDisk
    \/ AfterValidate
    \/ Run
    \/ BuildArch
    \/ BuildCommon
    \/ BuildDisk
    \/ BuildNet
    \/ BuildAudio
    \/ BuildDisplay
    \/ BuildMonitor
    \/ RunVMPrint
    \/ RunVMConfirm
    \/ RunVMSpawn
    \/ MainExit

Spec == Init /\ [][Next]_vars

----------------------------------------------------------------------------
(* Properties of the command builder (SpecBuild) *)

\* option opt immediately followed by value val
HasPair(a, opt, val) == \E i \in 1..(Len(a) - 1) : a[i] = opt /\ a[i + 1] = val

Count(a, x) == Cardinality({ i \in 1..Len(a) : a[i] = x })

Built == pc = "built"

TelnetSpec(port) == "telnet:127.0.0.1:" \o ToString(port) \o ",server,nowait"

\* the monitor specifications that take the monitor off stdio
OffStdio == {"none"} \cup { TelnetSpec(p) : p \in BuildMonitorPorts \ {0} }

C1_DisplayPart ==
    IF v.Graphical
    THEN GetGraphicalArgs(v) \o
         (IF "-nographic" \in Range(GetGraphicalArgs(v))
          THEN <<"-monitor", "none">> ELSE <<>>)
    ELSE GetNonGraphicalDisplayArgs(v) \o
         (IF v.NoSnapshot THEN <<>> ELSE <<"-snapshot">>)

C1_Prefix(tmp) ==
    GetArchArgs(v, env.files, tmp)
        \o <<"-smp", ToString(v.CPU)>>
        \o <<"-m", ToString(v.RAM) \o "G">>
        \o GetDiskArgs(v)
        \o GetNetworkArgs(v)
        \o <<"-audiodev", "none,id=snd0">>
        \o C1_DisplayPart

\* C1: a built argument list is, in this order, the variant's machine
\* arguments, -smp <cpu>, -m <ram>G, the variant's disk arguments, its network
\* arguments, -audiodev none,id=snd0, the display branch (-snapshot only in the
\* non-graphical branch), and last the monitor configuration (nothing or one
\* -monitor option).
C1_AssemblyOrder ==
    Built =>
        \E tmp \in TempNames \cup {""} :
        \E mon \in {<<>>} \cup { <<"-monitor", m>> : m \in OffStdio } :
            args = C1_Prefix(tmp) \o mon

C1_Witness ==
    /\ Built
    /\ v.kind = "aarch64"
    /\ v.Graphical
    /\ v.MonitorPort > 0
    /\ Len(GetArchArgs(v, env.files, TempName(1))) = 8
    /\ args = C1_Prefix(TempName(1)) \o <<"-monitor", TelnetSpec(v.MonitorPort)>>

\* C2: snapshot default law: writeMode = false and graphical = false give
\* -snapshot, writeMode = true never does.
C2_SnapshotLaw ==
    Built =>
        /\ (~cfg.WriteMode /\ ~cfg.Graphical) => SliceContains(args, "-snapshot")
        /\ cfg.WriteMode => ~SliceContains(args, "-snapshot")

C2_Witness ==
    /\ Built
    /\ ~cfg.WriteMode
    /\ ~cfg.Graphical
    /\ cfg.Arch = "s390x"
    /\ SliceContains(args, "-snapshot")

VarsDrives == { "if=pflash,format=raw,file=" \o t : t \in TempNames }

\* C4 as claimed: two builds of the same VM on the same host give the same
\* argument list, for every variant.
C4_Deterministic ==
    (Built /\ builds >= 2) => args = prevArgs

\* C4 as amended: two builds give the same argument list for x86_64, ppc64le
\* and s390x, and for aarch64 when no pflash drive is added; for aarch64 with
\* a firmware image the lists agree everywhere except the path of the
\* variable-store pflash drive, which names a new temporary file each time.
C4_DeterministicButTemp ==
    (Built /\ builds >= 2) =>
        /\ Len(args) = Len(prevArgs)
        /\ \A i \in 1..Len(args) :
              args[i] # prevArgs[i] =>
                  /\ cfg.Arch = "aarch64"
                  /\ v.FirmwarePath # ""
                  /\ i = 8
                  /\ args[i] \in VarsDrives
                  /\ prevArgs[i] \in VarsDrives
        /\ (cfg.Arch # "aarch64" \/ v.FirmwarePath = "" \/ ~env.tmpOK)
              => args = prevArgs
        /\ (cfg.Arch = "aarch64" /\ v.FirmwarePath # "" /\ env.tmpOK)
              => args[8] # prevArgs[8]

C4_Witness ==
    /\ Built
    /\ builds >= 2
    /\ cfg.Arch = "aarch64"
    /\ v.FirmwarePath # ""
    /\ args # prevArgs
    /\ SubSeq(args, 1, 7) = SubSeq(prevArgs, 1, 7)
    /\ SubSeq(args, 9, Len(args)) = SubSeq(prevArgs, 9, Len(prevArgs))

\* C9: monitor configuration: a telnet monitor on 127.0.0.1:<monitorPort> when
\* monitorPort > 0; with monitorPort = 0, exactly one -monitor none in
\* non-graphical mode, and no -monitor option at all in graphical mode with a
\* real display (x86_64, aarch64).
C9_MonitorConfiguration ==
    Built =>
        /\ cfg.MonitorPort > 0 =>
              HasPair(args, "-monitor", TelnetSpec(cfg.MonitorPort))
        /\ (cfg.MonitorPort = 0 /\ ~cfg.Graphical) =>
              /\ HasPair(args, "-monitor", "none")
              /\ Count(args, "-monitor") = 1
        /\ (cfg.MonitorPort = 0 /\ cfg.Graphical
                /\ cfg.Arch \in {"x86_64", "aarch64"}) =>
              ~SliceContains(args, "-monitor")

C9_Witness ==
    /\ Built
    /\ cfg.MonitorPort = 4444
    /\ ~cfg.Graphical
    /\ HasPair(args, "-monitor", "telnet:127.0.0.1:4444,server,nowait")
    /\ ~HasPair(args, "-monitor", "none")

----------------------------------------------------------------------------
(* Properties of BaseVM.Validate (SpecValidate) *)

EventOps == { events[i].op : i \in 1..Len(events) }

CountOp(op) == Cardinality({ i \in 1..Len(events) : events[i].op = op })

ValidateReturned == pc = "v_returned"

C5_BinaryFound ==
    \/ cfg.Arch = "x86_64"  /\ "qemu-system-x86_64" \in env.binaries
    \/ cfg.Arch = "aarch64" /\ "qemu-system-aarch64" \in env.binaries
    \/ cfg.Arch = "ppc64le" /\ "qemu-system-ppc64" \in env.binaries
    \/ cfg.Arch = "s390x"   /\ "qemu-system-s390x" \in env.binaries

C5_SSHFree == cfg.SSHPort \notin env.busyPorts

C5_MonitorFree == cfg.MonitorPort = 0 \/ cfg.MonitorPort \notin env.busyPorts

\* the calls Validate has made when it returns at the named check
C5_Lookup == <<Event("lookpath", QEMUBinary(cfg.Arch))>>

C5_SSHBind(free) ==
    IF free
    THEN <<Event("listen", ToString(cfg.SSHPort)), Event("close", ToString(cfg.SSHPort))>>
    ELSE <<Event("listen", ToString(cfg.SSHPort))>>

C5_MonitorBind(free) ==
    IF cfg.MonitorPort = 0 THEN <<>>
    ELSE IF free
    THEN << Event("listen", ToString(cfg.MonitorPort)),
            Event("close", ToString(cfg.MonitorPort)) >>
    ELSE <<Event("listen", ToString(cfg.MonitorPort))>>

\* Validate's outcome when its last check fails exactly when diskBad holds
C5_FirstFailure(diskBad) ==
    IF ~C5_BinaryFound
    THEN /\ IsErr(result)
         /\ result.fmt = "QEMU binary '%s' not found in PATH. %s\nError: %v"
         /\ events = C5_Lookup
    ELSE IF ~C5_SSHFree
    THEN /\ IsErr(result)
         /\ result.fmt = "SSH port %d is already in use. Please choose a different port using --ssh-port"
         /\ events = C5_Lookup \o C5_SSHBind(FALSE)
    ELSE IF ~C5_MonitorFree
    THEN /\ IsErr(result)
         /\ result.fmt = "monitor port %d is already in use. Please choose a different port using --monitor-port"
         /\ events = C5_Lookup \o C5_SSHBind(TRUE) \o C5_MonitorBind(FALSE)
    ELSE /\ events = C5_Lookup \o C5_SSHBind(TRUE) \o C5_MonitorBind(TRUE)
         /\ IF diskBad
            THEN IsErr(result) /\ result.fmt = "disk image path is not set"
            ELSE result = Ok

\* C5 as claimed: Validate checks, in this order, the QEMU binary, the SSH
\* port, the monitor port (only when monitorPort # 0) and that the disk path
\* is non-empty and exists; it returns the first failure, makes none of the
\* later checks, and returns ok only if all pass.
C5_ValidateOrderWithDiskExists ==
    ValidateReturned =>
        C5_FirstFailure(cfg.DiskPath = "" \/ cfg.DiskPath \notin env.files)

\* C5 as amended: the same order and fail-fast behaviour, with the last check
\* being only that the disk path is non-empty; Validate does not look for the
\* file.
C5_ValidateOrder ==
    ValidateReturned => C5_FirstFailure(cfg.DiskPath = "")

C5_Witness ==
    /\ ValidateReturned
    /\ C5_BinaryFound
    /\ C5_SSHFree
    /\ cfg.MonitorPort = 4444
    /\ ~C5_MonitorFree
    /\ IsErr(result)
    /\ result.arg = "4444"
    /\ Len(events) = 4

----------------------------------------------------------------------------
(* Properties of VMConfig.Validate (SpecCfg) *)

CfgReturned == pc = "cfg_returned"

C6_CPUInRange == cfg.CPU >= 1 /\ cfg.CPU <= 32
C6_RAMInRange == cfg.RAMGb >= 1 /\ cfg.RAMGb <= 128
C6_SSHInRange == cfg.SSHPort >= 1024 /\ cfg.SSHPort <= 65535
C6_MonitorInRange ==
    cfg.MonitorPort = 0 \/ (cfg.MonitorPort >= 1024 /\ cfg.MonitorPort <= 65535)
C6_DiskThere == cfg.DiskPath # "" /\ cfg.DiskPath \in env.files

\* C6: range boundaries of VMConfig.Validate, the other fields being valid and
\* the disk file existing: cpu 0, 33 rejected and 1, 32 accepted; ram 0, 129
\* rejected and 1, 128 accepted; sshPort 1023 rejected and 1024, 65535
\* accepted; monitorPort 0, 1024 accepted and 1..1023 rejected.
C6_RangeBoundaries ==
    CfgReturned =>
        /\ (C6_RAMInRange /\ C6_SSHInRange /\ C6_MonitorInRange /\ C6_DiskThere) =>
              /\ cfg.CPU \in {0, 33} => IsErr(result)
              /\ cfg.CPU \in {1, 32} => result = Ok
        /\ (C6_CPUInRange /\ C6_SSHInRange /\ C6_MonitorInRange /\ C6_DiskThere) =>
              /\ cfg.RAMGb \in {0, 129} => IsErr(result)
              /\ cfg.RAMGb \in {1, 128} => result = Ok
        /\ (C6_CPUInRange /\ C6_RAMInRange /\ C6_MonitorInRange /\ C6_DiskThere) =>
              /\ cfg.SSHPort = 1023 => IsErr(result)
              /\ cfg.SSHPort \in {1024, 65535} => result = Ok
        /\ (C6_CPUInRange /\ C6_RAMInRange /\ C6_SSHInRange /\ C6_DiskThere) =>
              /\ cfg.MonitorPort \in {0, 1024} => result = Ok
              /\ cfg.MonitorPort \in 1..1023 => IsErr(result)

C6_Witness ==
    /\ CfgReturned
    /\ cfg.CPU = 32
    /\ cfg.RAMGb = 128
    /\ cfg.SSHPort = 1024
    /\ cfg.MonitorPort = 1024
    /\ C6_DiskThere
    /\ result = Ok

----------------------------------------------------------------------------
(* Properties of DetectArchitecture (SpecDetect) *)

DetectReturned == pc = "detect_returned"

VirtCatEvent == Event("detectByVirtCat", cfg.DiskPath)
FilenameEvent == Event("detectByFilename", cfg.DiskPath)

\* guest inspection works on this host: virt-cat is installed and no step fails
C7_InspectionRuns == "virt-cat" \in env.binaries /\ env.virtcat.fail = "none"

\* C7: guest inspection is tried first and the filename heuristic second, and
\* the first success is returned: a path with an architecture token gives that
\* architecture when guest inspection is unavailable or fails, and guest
\* inspection wins when both succeed with different answers.
C7_FallbackOrder ==
    /\ \A i, j \in 1..Len(events) :
          (events[i] = VirtCatEvent /\ events[j] = FilenameEvent) => i < j
    /\ FilenameEvent \in Range(events) => VirtCatEvent \in Range(events)
    /\ (DetectReturned /\ cfg.DiskPath # "") =>
          LET vc == detectByVirtCat(cfg.DiskPath, env)
              fn == detectByFilename(cfg.DiskPath)
          IN  /\ vc.err = Ok =>
                    /\ result = [kind |-> "detected", arg |-> vc.arch]
                    /\ events = <<VirtCatEvent>>
              /\ (vc.err # Ok /\ fn.err = Ok) =>
                    /\ result = [kind |-> "detected", arg |-> fn.arch]
                    /\ events = <<VirtCatEvent, FilenameEvent>>
    /\ (DetectReturned /\ cfg.DiskPath = "sles-aarch64.qcow2") =>
          /\ ~C7_InspectionRuns => result = [kind |-> "detected", arg |-> "aarch64"]
          /\ (C7_InspectionRuns /\ env.virtcat.report = ReportX86) =>
                result = [kind |-> "detected", arg |-> "x86_64"]

C7_Witness ==
    /\ DetectReturned
    /\ cfg.DiskPath = "Leap_X86_64.img"
    /\ C7_InspectionRuns
    /\ env.virtcat.report = ReportS390
    /\ result = [kind |-> "detected", arg |-> "s390x"]
    /\ detectByFilename(cfg.DiskPath).arch = "x86_64"

\* C8: when both methods were tried and failed the error names the disk path
\* and asks for --arch; no method is tried twice; a guest-inspection failure is
\* never the final error when the filename heuristic succeeds.
C8_CombinedFailure ==
    /\ CountOp("detectByVirtCat") <= 1
    /\ CountOp("detectByFilename") <= 1
    /\ (DetectReturned /\ cfg.DiskPath # "") =>
          LET vc == detectByVirtCat(cfg.DiskPath, env)
              fn == detectByFilename(cfg.DiskPath)
          IN  /\ (vc.err # Ok /\ fn.err # Ok) =>
                    /\ events = <<VirtCatEvent, FilenameEvent>>
                    /\ result = Err("could not detect architecture from disk image '%s'. Please specify it explicitly with --arch flag",
                                    cfg.DiskPath)
              /\ (vc.err # Ok /\ fn.err = Ok) =>
                    /\ ~IsErr(result)
                    /\ result # vc.err

C8_Witness ==
    /\ DetectReturned
    /\ cfg.DiskPath = "ppc64le.img"
    /\ "virt-cat" \notin env.binaries
    /\ IsErr(result)
    /\ result.arg = "ppc64le.img"
    /\ events = <<VirtCatEvent, FilenameEvent>>

----------------------------------------------------------------------------
(* Properties of the launch pipeline (Spec) *)

Done == pc = "done"

\* runQ2BootE has returned, the process may have exited since
Returned == pc \in {"done", "exited"}

\* initConfig produced a configuration (cfg is not nil)
ConfigLoaded == env.file.state # "nodir"

C10_NoBinaryOrPortCheck ==
    EventOps \cap {"lookpath", "listen", "close", "exec"} = {}

C10_RangesPass ==
    /\ cfg.CPU >= 1 /\ cfg.CPU <= 32
    /\ cfg.RAMGb >= 1 /\ cfg.RAMGb <= 128
    /\ cfg.SSHPort >= 1024
    /\ cfg.MonitorPort = 0 \/ cfg.MonitorPort >= 1024

C10_DiskPathErrors ==
    { Err("disk path is empty", ""),
      Err("disk path is required (use -d or --disk)", "") }

\* C10 as claimed: with diskPath = "" the run ends with a disk-path error, and
\* no QEMU binary was looked up and no port bound before it.
C10_DiskErrorFirst ==
    (Done /\ ConfigLoaded /\ env.diskArg = "") =>
        /\ IsErr(result)
        /\ result.cause \in C10_DiskPathErrors
        /\ C10_NoBinaryOrPortCheck

\* C10 as amended: with diskPath = "" no QEMU binary is ever looked up and no
\* port bound, and the run ends with an error: without --arch the detector's
\* "disk path is empty"; with --arch the error of VMConfig.Validate, which is
\* "disk path is required" when cpu, ram and the ports are in range and the
\* range error otherwise.
C10_EmptyDiskStopsEarly ==
    (ConfigLoaded /\ env.diskArg = "") =>
        /\ C10_NoBinaryOrPortCheck
        /\ pc \notin {"ports_ssh", "ports_mon", "arch_check", "create", "configure",
                      "configured", "v_binary", "run", "built"}
        /\ Done =>
              /\ IsErr(result)
              /\ "arch" \notin env.flags.changed =>
                    /\ result.fmt = "architecture not specified and automatic detection failed: %w"
                    /\ result.cause = Err("disk path is empty", "")
              /\ "arch" \in env.flags.changed =>
                    /\ result.fmt = "configuration validation failed: %w"
                    /\ C10_RangesPass <=>
                          result.cause = Err("disk path is required (use -d or --disk)", "")

C10_Witness ==
    /\ Done
    /\ env.diskArg = ""
    /\ "arch" \in env.flags.changed
    /\ C10_RangesPass
    /\ result.cause = Err("disk path is required (use -d or --disk)", "")
    /\ events = <<>>

\* the architecture gets resolved: --arch was given, or detection succeeds
ArchResolves ==
    \/ "arch" \in env.flags.changed
    \/ /\ env.diskArg # ""
       /\ \/ detectByVirtCat(env.diskArg, env).err = Ok
          \/ detectByFilename(env.diskArg).err = Ok

\* the flag overrides have been applied: cfg holds the run's settings
Overridden == ConfigLoaded /\ pc \notin {"init_config", "start"}

C11_RangeFormats ==
    { "CPU count must be between %d and %d, got %d",
      "RAM must be between %d and %d GB, got %d",
      "SSH port must be >= %d, got %d" }

----------------------------------------------------------------------------
(* Properties of the factory (SpecBuild) *)

C12_Binary ==
    [ x86_64  |-> "qemu-system-x86_64",
      aarch64 |-> "qemu-system-aarch64",
      ppc64le |-> "qemu-system-ppc64",
      s390x   |-> "qemu-system-s390x" ]

C12_Closed == {"x86_64", "aarch64", "ppc64le", "s390x"}

\* GetQEMUBinaryForArch has returned (it keeps no VM)
C12_BinaryAsked == pc = "done" /\ v = NoVM /\ result.kind \in {"binary", "error"}

\* C12: the mapping from architecture to binary is a fixed total table on
\* {x86_64, aarch64, ppc64le, s390x}: CreateVM(arch) succeeds exactly when
\* IsArchSupported(arch); the variant's QEMUBinary is the table's entry; for
\* any other string, the empty one included, CreateVM and GetQEMUBinaryForArch
\* return the unsupported-architecture error and no variant.
C12_ArchBinaryTable ==
    /\ IsArchSupported(cfg.Arch) <=> cfg.Arch \in C12_Closed
    /\ pc # "create" =>
          IF IsArchSupported(cfg.Arch)
          THEN /\ ~IsErr(result)
               /\ \/ /\ v.kind = cfg.Arch
                     /\ QEMUBinary(v.kind) = C12_Binary[cfg.Arch]
                  \/ /\ C12_BinaryAsked
                     /\ result = [kind |-> "binary", arg |-> C12_Binary[cfg.Arch]]
          ELSE /\ result = Err("unsupported architecture: %s", cfg.Arch)
               /\ v = NoVM
               /\ pc = "done"

C12_Witness ==
    /\ pc = "done"
    /\ cfg.Arch = ""
    /\ v = NoVM
    /\ result = Err("unsupported architecture: %s", "")

----------------------------------------------------------------------------
(* Properties of the finalized configuration (SpecConfigure) *)

\* the configuration is final: flags applied and the architecture resolved
Finalized == ConfigLoaded /\ pc = "cfg_validate"

\* the file's value of a setting, the built-in default when the file has none
FileOrDefault(key) ==
    IF key \in env.file.keys THEN env.file.val[key] ELSE DefaultConfig[key]

\* the flag when it was given, else the file's value, else the default
C13_Priority(flag, flagValue, key) ==
    IF flag \in env.flags.changed THEN flagValue ELSE FileOrDefault(key)

C13_ZeroAware(flag, flagValue, zero, key) ==
    IF flag \in env.flags.changed /\ (flagValue # zero \/ env.file.state # "badtype")
    THEN flagValue
    ELSE FileOrDefault(key)

\* the architecture detection gives for the disk image
C13_Detected ==
    LET vc == detectByVirtCat(env.diskArg, env)
    IN IF vc.err = Ok THEN vc.arch ELSE detectByFilename(env.diskArg).arch

----------------------------------------------------------------------------
(* Properties of the launch pipeline, continued (Spec) *)

DetectionOps == {"detectByVirtCat", "detectByFilename"}

LaterOps == {"stat", "listen", "close", "lookpath", "print", "scanln", "exec"}

BeforeResolution ==
    {"init_config", "start", "detect", "detect_virtcat", "detect_filename",
     "detect_returned"}

----------------------------------------------------------------------------
(* Properties of the command builder, continued (SpecBuild) *)

\* C15: snapshot mode is the default: whenever write mode is not enabled,
\* whatever the architecture and whether or not graphical mode is asked for,
\* the arguments QEMU is launched with contain -snapshot.
C15_SnapshotDefault ==
    (Built /\ ~cfg.WriteMode) => SliceContains(args, SnapshotArgument)

----------------------------------------------------------------------------
(* Properties of RunVM and of the process (Spec) *)

\* RunVM has returned: cmd.Run() was called and its outcome is known
RunVMReturned == Done /\ "child" \in EventOps

\* how the child ended
ChildOutcome == events[Len(events)].arg

C16_IsExitError == IsErr(result) /\ result.fmt = "QEMU exited with status %d"

C16_IsLaunchError == IsErr(result) /\ result.fmt = "failed to start QEMU: %w"

\* C16: RunVM returns nil exactly when the child ran and exited with status
\* 0, an exit error carrying the exit status when the child ran and ended
\* otherwise, and a distinct "failed to start QEMU" error when the child could
\* not be started; exactly one of the three holds.
C16_OutcomeMapping ==
    RunVMReturned =>
        /\ result = Ok <=> ChildOutcome = "exit0"
        /\ ChildOutcome = "exit1" => result = Err("QEMU exited with status %d", "1")
        /\ ChildOutcome = "exit3" => result = Err("QEMU exited with status %d", "3")
        /\ ChildOutcome = "signal" => result = Err("QEMU exited with status %d", "-1")
        /\ C16_IsExitError <=> ChildOutcome \in {"exit1", "exit3", "signal"}
        /\ C16_IsLaunchError <=> ChildOutcome = "nostart"
        /\ Cardinality({ i \in 1..3 :
              <<result = Ok, C16_IsExitError, C16_IsLaunchError>>[i] }) = 1

C16_Witness ==
    /\ RunVMReturned
    /\ ChildOutcome = "nostart"
    /\ C16_IsLaunchError
    /\ Event("lookpath", QEMUBinary(v.kind)) \in Range(events)

\* the process has ended
Exited == pc = "exited"

\* the status the process ended with
ExitStatus == events[Len(events)].arg

\* the child's outcome, for a run in which QEMU was launched
C17_Child == events[Len(events) - 1].arg

C17_QEMUFailed == IsErr(result) /\ result.fmt = "QEMU exited with status %d"

\* C17 as claimed: the process exits with 0 exactly when the whole pipeline
\* succeeded and with a non-zero status otherwise; when QEMU exited non-zero
\* it is QEMU's exit status that the process exits with.
C17_ExitPropagated ==
    (Exited /\ ConfigLoaded) =>
        /\ ExitStatus = "0" <=> result = Ok
        /\ C17_QEMUFailed => ExitStatus = result.arg

\* C17 as amended: the process exits with 0 exactly when the whole pipeline
\* succeeded (QEMU ran and exited with 0) and with 1 on every error: failed
\* validation, failed detection, missing binary, port conflict, QEMU that
\* could not be started or that ended non-zero; QEMU's own status is only
\* part of the error message. (A run that panics because initConfig set up
\* no configuration ends with status 2.)
C17_ExitOneOnError ==
    Exited =>
        /\ ExitStatus = "0" <=> result = Ok
        /\ result = Ok <=> ("child" \in EventOps /\ C17_Child = "exit0")
        /\ ConfigLoaded => (IsErr(result) /\ ExitStatus = "1") \/ (result = Ok /\ ExitStatus = "0")
        /\ ~ConfigLoaded => ExitStatus = "2"
        /\ C17_QEMUFailed =>
              /\ ExitStatus = "1"
              /\ result.arg = ToString(ExitCode(C17_Child))

C17_Witness ==
    /\ Exited
    /\ C17_QEMUFailed
    /\ C17_Child = "exit3"
    /\ result.arg = "3"
    /\ ExitStatus = "1"

----------------------------------------------------------------------------
(* Properties of ValidatePortsAvailable (SpecValidate) *)

\* the binds and closes made so far
PortOps == SelectSeq(events, LAMBDA ev : ev.op \in {"listen", "close"})

\* ValidatePortsAvailable was called and has returned
PortsReturned == pc \in {"v_disk", "v_returned"} /\ PortOps # <<>>

C18_Listen(port) == Event("listen", ToString(port))

C18_Close(port) == Event("close", ToString(port))

\* listeners that were opened and are not closed yet
C18_OpenListeners ==
    { i \in 1..Len(PortOps) :
        /\ PortOps[i].op = "listen"
        /\ PortOps[i].arg \in { ToString(p) : p \in {v.SSHPort, v.MonitorPort} \ env.busyPorts }
        /\ ~(i < Len(PortOps) /\ PortOps[i + 1] = [PortOps[i] EXCEPT !.op = "close"]) }

\* C18: ValidatePortsAvailable binds the SSH port first and the monitor port
\* second, with no bind for a monitor port of 0; it reports the first port
\* that cannot be bound, naming the flag that changes it; every listener it
\* opens is closed again before it returns, on success and on failure.
C18_PortsChecked ==
    /\ PortOps # <<>> => PortOps[1] = C18_Listen(v.SSHPort)
    /\ C18_OpenListeners = {}
    /\ \A i \in 1..Len(PortOps) :
          PortOps[i].op = "close" => (i > 1 /\ PortOps[i - 1] = [PortOps[i] EXCEPT !.op = "listen"])
    /\ C18_Listen(0) \notin Range(PortOps)
    /\ PortsReturned =>
          IF v.SSHPort \in env.busyPorts
          THEN /\ PortOps = <<C18_Listen(v.SSHPort)>>
               /\ pc = "v_returned"
               /\ result = Err("SSH port %d is already in use. Please choose a different port using --ssh-port",
                               ToString(v.SSHPort))
          ELSE IF v.MonitorPort = 0
          THEN PortOps = <<C18_Listen(v.SSHPort), C18_Close(v.SSHPort)>>
          ELSE IF v.MonitorPort \in env.busyPorts
          THEN /\ PortOps = << C18_Listen(v.SSHPort), C18_Close(v.SSHPort),
                               C18_Listen(v.MonitorPort) >>
               /\ pc = "v_returned"
               /\ result = Err("monitor port %d is already in use. Please choose a different port using --monitor-port",
                               ToString(v.MonitorPort))
          ELSE PortOps = << C18_Listen(v.SSHPort), C18_Close(v.SSHPort),
                            C18_Listen(v.MonitorPort), C18_Close(v.MonitorPort) >>

C18_Witness ==
    /\ PortsReturned
    /\ v.MonitorPort = 4444
    /\ env.busyPorts = {4444}
    /\ PortOps = <<C18_Listen(2222), C18_Close(2222), C18_Listen(4444)>>
    /\ IsErr(result)
    /\ result.arg = "4444"

----------------------------------------------------------------------------
(* Properties of the command builder, graphical mode (SpecBuild) *)

\* how often option opt is immediately followed by val
CountPair(a, opt, val) ==
    Cardinality({ i \in 1..(Len(a) - 1) : a[i] = opt /\ a[i + 1] = val })

\* the last n arguments
LastArgs(a, n) == SubSeq(a, Len(a) - n + 1, Len(a))

\* C19: with graphical = true and monitorPort = 0 the builder appends
\* -monitor none exactly when the variant's graphical arguments contain
\* -nographic (ppc64le and s390x); for a variant with a real display (x86_64
\* and aarch64) the arguments contain neither -monitor none nor -snapshot.
C19_FallbackRecognition ==
    (Built /\ v.Graphical /\ v.MonitorPort = 0) =>
        LET g == GetGraphicalArgs(v)
            fallback == SliceContains(g, "-nographic")
        IN  /\ fallback <=> v.kind \in {"ppc64le", "s390x"}
            /\ fallback =>
                  /\ LastArgs(args, Len(g) + 2) = g \o <<"-monitor", "none">>
                  /\ CountPair(args, "-monitor", "none") =
                        CountPair(g, "-monitor", "none") + 1
            /\ ~fallback =>
                  /\ LastArgs(args, Len(g)) = g
                  /\ ~HasPair(args, "-monitor", "none")
                  /\ ~SliceContains(args, "-monitor")
                  /\ ~SliceContains(args, "-snapshot")

C19_Witness ==
    /\ Built
    /\ v.Graphical
    /\ v.MonitorPort = 0
    /\ v.kind = "ppc64le"
    /\ LastArgs(args, 5) = <<"-nographic", "-serial", "stdio", "-monitor", "none">>

----------------------------------------------------------------------------
(* Properties of RunVM, the order of its steps (Spec) *)

\* the positions in events of RunVM's steps
OpIndexes(op) == { i \in 1..Len(events) : events[i].op = op }

----------------------------------------------------------------------------
(* Properties of the launch pipeline, the single attempt (Spec) *)

\* the position in events of the first event of an operation, 0 when none
FirstIndex(op) ==
    IF OpIndexes(op) = {} THEN 0
    ELSE CHOOSE i \in OpIndexes(op) : \A j \in OpIndexes(op) : i <= j

\* the first step of runQ2BootE that fails on this host, "none" when all pass
C21_FailingStep ==
    IF ~ArchResolves THEN "resolve"
    ELSE IF CfgValidateResult(cfg, env) # Ok THEN "config"
    ELSE IF ~C5_SSHFree \/ ~C5_MonitorFree THEN "ports"
    ELSE IF ~IsArchSupported(cfg.Arch) THEN "arch"
    ELSE IF ~C5_BinaryFound THEN "vm"
    ELSE "none"

\* the error a failing step ends the run with
C21_StepError(step) ==
    CASE step = "resolve" ->
           result.fmt = "architecture not specified and automatic detection failed: %w"
      [] step = "config" ->
           result = Wrap("configuration validation failed: %w", CfgValidateResult(cfg, env))
      [] step = "ports" ->
           result \in
             { Err("SSH port %d is already in use. Please choose a different port using --ssh-port",
                   ToString(cfg.SSHPort)),
               Err("monitor port %d is already in use. Please choose a different port using --monitor-port",
                   ToString(cfg.MonitorPort)) }
      [] step = "arch" ->
           result = Err("invalid architecture '%s'. Valid options: %v", cfg.Arch)
      [] step = "vm" ->
           result = Wrap("VM validation failed: %w",
                         Err("QEMU binary '%s' not found in PATH. %s\nError: %v",
                             QEMUBinary(cfg.Arch)))

\* the operations a run has made when it ends at a step
C21_StepOps(step) ==
    CASE step = "resolve" -> DetectionOps
      [] step = "config"  -> DetectionOps \cup {"stat"}
      [] step = "ports"   -> DetectionOps \cup {"stat", "listen", "close"}
      [] step = "arch"    -> DetectionOps \cup {"stat", "listen", "close"}
      [] step = "vm"      -> DetectionOps \cup {"stat", "listen", "close", "lookpath"}

\* C21: QEMU is spawned at most once in a run, and only after architecture
\* resolution, configuration validation, port validation, the
\* architecture-support check and VM validation have succeeded in that order;
\* a failing step ends the run with its own error, QEMU is not spawned, and
\* no step is made again.
C21_SingleAttempt ==
    /\ CountOp("exec") <= 1
    /\ CountOp("lookpath") <= 1
    /\ CountOp("stat") <= 1
    /\ CountOp("detectByVirtCat") <= 1
    /\ CountOp("detectByFilename") <= 1
    /\ CountOp("print") <= 1
    /\ pc = "arch_check" => "listen" \in EventOps /\ "lookpath" \notin EventOps
    /\ (ConfigLoaded /\ Returned) =>
          IF C21_FailingStep = "none"
          THEN /\ CountOp("exec") = 1
               /\ result = RunVMResult(events[FirstIndex("exec") + 1].arg)
               /\ "arch" \notin env.flags.changed =>
                     /\ FirstIndex("detectByVirtCat") \in 1..2
                     /\ FirstIndex("detectByVirtCat") < FirstIndex("stat")
                     /\ cfg.Arch = C13_Detected
               /\ 0 < FirstIndex("stat")
               /\ FirstIndex("stat") < FirstIndex("listen")
               /\ FirstIndex("listen") < FirstIndex("lookpath")
               /\ CountOp("listen") \in {2, 4}
               /\ FirstIndex("lookpath") < FirstIndex("print")
               /\ FirstIndex("print") < FirstIndex("exec")
          ELSE /\ IsErr(result)
               /\ C21_StepError(C21_FailingStep)
               /\ EventOps \subseteq C21_StepOps(C21_FailingStep) \cup {"writeconfig", "exit"}
               /\ C21_FailingStep \in {"ports", "arch", "vm"} =>
                     "stat" \in EventOps /\ "listen" \in EventOps
               /\ C21_FailingStep = "vm" => "lookpath" \in EventOps

\* QEMU could not be started: the run ends after the one attempt
C21_Witness ==
    /\ Exited
    /\ C21_FailingStep = "none"
    /\ CountOp("exec") = 1
    /\ result = Err("failed to start QEMU: %w", "")
    /\ CountOp("listen") = 4

----------------------------------------------------------------------------
(* Properties of the aarch64 variant (SpecBuild) *)

\* GetArchArgs of the aarch64 variant has just returned
ArchArgsBuilt == pc = "build_common" /\ v.kind = "aarch64"

C22_CodeImage ==
    IF "/usr/share/qemu/aavmf-aarch64-code.bin" \in env.files
    THEN "/usr/share/qemu/aavmf-aarch64-code.bin"
    ELSE IF "/usr/share/AAVMF/AAVMF_CODE.fd" \in env.files
    THEN "/usr/share/AAVMF/AAVMF_CODE.fd"
    ELSE ""

----------------------------------------------------------------------------
(* Properties of Configure (SpecVM) *)

\* a step of Configure
ConfigureStep == pc = "configure" /\ pc' = "configured"

\* C23: Configure copies cpu, ram, sshPort, monitorPort, logFile, graphical
\* and confirm from cfg to the VM and sets NoSnapshot to cfg.WriteMode; the
\* VM's DiskPath becomes cfg.DiskPath when that is non-empty and stays as it
\* was when cfg.DiskPath is empty; nothing in cfg changes (and nothing else of
\* the VM).
C23_ConfigureFrame ==
    [][ConfigureStep =>
          /\ v'.CPU = cfg.CPU
          /\ v'.RAM = cfg.RAMGb
          /\ v'.SSHPort = cfg.SSHPort
          /\ v'.MonitorPort = cfg.MonitorPort
          /\ v'.LogFile = cfg.LogFile
          /\ v'.Graphical = cfg.Graphical
          /\ v'.Confirm = cfg.Confirm
          /\ v'.NoSnapshot = cfg.WriteMode
          /\ cfg.DiskPath # "" => v'.DiskPath = cfg.DiskPath
          /\ cfg.DiskPath = "" => v'.DiskPath = v.DiskPath
          /\ v'.kind = v.kind
          /\ v'.FirmwarePath = v.FirmwarePath
          /\ cfg' = cfg]_vars

\* a VM whose disk path was set before kept it through a Configure with an
\* empty cfg.DiskPath
C23_Witness ==
    /\ pc = "configured"
    /\ cfg.DiskPath = ""
    /\ v.DiskPath = "/tmp/old.img"
    /\ v.NoSnapshot /\ cfg.WriteMode
    /\ v.CPU = 4 /\ v.SSHPort = 2223 /\ v.LogFile = "test.log"

----------------------------------------------------------------------------
(* Properties of the aarch64 display arguments (SpecBuild) *)

\* what buildArgs appended after the audio arguments
AfterAudio ==
    LET k == CHOOSE i \in 1..Len(args) : args[i] = "-audiodev"
    IN  SubSeq(args, k + 2, Len(args))

C24_Expected ==
    IF v.LogFile # "" THEN <<"-nographic">>
    ELSE <<"-nographic", "-serial", "mon:stdio">>

\* C24: with graphical = false the display arguments of the aarch64 variant
\* are exactly -nographic when a log file is configured, and -nographic
\* -serial mon:stdio when none is.
C24_NonGraphicalDisplay ==
    (Built /\ v.kind = "aarch64" /\ ~v.Graphical) =>
        /\ GetNonGraphicalDisplayArgs(v) = C24_Expected
        /\ Len(AfterAudio) >= Len(C24_Expected)
        /\ SubSeq(AfterAudio, 1, Len(C24_Expected)) = C24_Expected
        /\ \A i \in (Len(C24_Expected) + 1)..Len(AfterAudio) :
              \/ AfterAudio[i] \in {"-snapshot", "-monitor"}
              \/ AfterAudio[i - 1] = "-monitor"
        /\ Count(args, "-nographic") = 1
        /\ Count(args, "-serial") = (IF v.LogFile = "" THEN 1 ELSE 0)
        /\ Count(args, "-display") = 0

\* no log file: the serial console goes to the terminal
C24_Witness ==
    /\ Built
    /\ v.kind = "aarch64"
    /\ ~v.Graphical
    /\ v.LogFile = ""
    /\ HasPair(args, "-serial", "mon:stdio")
    /\ "-nographic" \in Range(args)

----------------------------------------------------------------------------
(* Properties of the filename heuristic (SpecDetect) *)

\* the name occurs in the lower-cased path right after a separator
C25_AfterSeparator(path, name) ==
    LET l == ToLower(PathChars(path))
        a == ArchChars(name)
    IN  \E i \in 2..Len(l) :
           /\ l[i - 1] \in {"@", "-", "_"}
           /\ i + Len(a) - 1 <= Len(l)
           /\ \A k \in 1..Len(a) : l[i + k - 1] = a[k]

C25_First(path) ==
    IF C25_AfterSeparator(path, "x86_64") THEN "x86_64"
    ELSE IF C25_AfterSeparator(path, "aarch64") THEN "aarch64"
    ELSE IF C25_AfterSeparator(path, "ppc64le") THEN "ppc64le"
    ELSE IF C25_AfterSeparator(path, "s390x") THEN "s390x"
    ELSE ""

\* C25: detectByFilename lower-cases the whole path and returns the first
\* architecture, in the order x86_64, aarch64, ppc64le, s390x, whose name
\* occurs right after one of the separators @, - and _; it returns an error
\* when there is no such occurrence, also when a name occurs without a
\* separator before it.
C25_FilenameHeuristic ==
    (DetectReturned /\ FilenameEvent \in Range(events)) =>
        LET fn == detectByFilename(cfg.DiskPath) IN
        IF C25_First(cfg.DiskPath) = ""
        THEN /\ fn = [arch |-> "",
                      err |-> Err("could not deduce architecture from filename for '%s'",
                                  cfg.DiskPath)]
             /\ IsErr(result)
        ELSE /\ fn = [arch |-> C25_First(cfg.DiskPath), err |-> Ok]
             /\ result = [kind |-> "detected", arg |-> C25_First(cfg.DiskPath)]

\* s390x comes first in the path and aarch64, in capitals, second: aarch64 is
\* the answer
C25_Witness ==
    /\ DetectReturned
    /\ FilenameEvent \in Range(events)
    /\ cfg.DiskPath = "vm-s390x_AARCH64.raw"
    /\ result = [kind |-> "detected", arg |-> "aarch64"]

----------------------------------------------------------------------------
(* Properties of the guest-inspection classification (SpecDetect) *)

\* the word occurs in the report, whatever the case of the letters
C26_Mentions(report, word) ==
    \E i \in 1..Len(report) :
       /\ i + Len(word) - 1 <= Len(report)
       /\ \A k \in 1..Len(word) : LowerChar(report[i + k - 1]) = word[k]

\* the architecture the report stands for, "" when it stands for none
C26_Class(report) ==
    IF ~C26_Mentions(report, <<"e", "l", "f">>) THEN ""
    ELSE IF C26_Mentions(report, <<"a", "a", "r", "c", "h", "6", "4">>) THEN "aarch64"
    ELSE IF \/ C26_Mentions(report, <<"p", "o", "w", "e", "r", "p", "c">>)
            \/ C26_Mentions(report, <<"p", "p", "c", "6", "4">>) THEN "ppc64le"
    ELSE IF \/ C26_Mentions(report, <<"s", "3", "9", "0">>)
            \/ C26_Mentions(report, <<"s", "/", "3", "9", "0">>) THEN "s390x"
    ELSE IF C26_Mentions(report, <<"x", "8", "6", "-", "6", "4">>) THEN "x86_64"
    ELSE ""

\* the tool was run on the disk image and gave its report
C26_Classified ==
    /\ C7_InspectionRuns
    /\ VirtCatEvent \in Range(events)

\* C26: the report is matched whatever its case and gives an architecture
\* only if it contains elf; the signatures are tested in the order aarch64,
\* powerpc or ppc64 (ppc64le), s390 or s/390 (s390x), x86-64 (x86_64) and the
\* first match wins; a report that matches none, or lacks elf, makes the
\* method fail and the filename heuristic is tried.
C26_Classification ==
    /\ C26_Class(ReportX86) = "x86_64"
    /\ C26_Class(ReportPPC) = "ppc64le"
    /\ C26_Class(ReportS390) = "s390x"
    /\ C26_Class(ReportTwo) = "ppc64le"
    /\ C26_Class(ReportNoElf) = ""
    /\ C26_Classified =>
          IF C26_Class(env.virtcat.report) # ""
          THEN /\ pc = "detect_returned"
               /\ result = [kind |-> "detected", arg |-> C26_Class(env.virtcat.report)]
               /\ events = <<VirtCatEvent>>
          ELSE /\ pc \in {"detect_filename", "detect_returned"}
               /\ pc = "detect_returned" => events = <<VirtCatEvent, FilenameEvent>>
               /\ detectByVirtCat(cfg.DiskPath, env).err =
                     Err("virt-cat/file did not reveal a clear ELF architecture for '%s'; output: %s",
                         cfg.DiskPath)

\* a report without ELF that names aarch64: the filename decides
C26_Witness ==
    /\ C26_Classified
    /\ DetectReturned
    /\ env.virtcat.report = ReportNoElf
    /\ cfg.DiskPath = "vm@s390x.raw"
    /\ events = <<VirtCatEvent, FilenameEvent>>
    /\ result = [kind |-> "detected", arg |-> "s390x"]

----------------------------------------------------------------------------
(* Properties of VMConfig.Validate, the order of its checks (SpecCfg) *)

\* the checks in their order, the last one being given
C27_Violated(diskCheckFails) ==
    << ~C6_CPUInRange,
       ~C6_RAMInRange,
       cfg.SSHPort < 1024,
       cfg.MonitorPort # 0 /\ cfg.MonitorPort < 1024,
       cfg.DiskPath = "",
       diskCheckFails >>

C27_Errors ==
    << Err("CPU count must be between %d and %d, got %d", ToString(cfg.CPU)),
       Err("RAM must be between %d and %d GB, got %d", ToString(cfg.RAMGb)),
       Err("SSH port must be >= %d, got %d", ToString(cfg.SSHPort)),
       Err("monitor port must be >= %d, got %d", ToString(cfg.MonitorPort)),
       Err("disk path is required (use -d or --disk)", ""),
       Err("disk image not found at '%s'", cfg.DiskPath) >>

\* the error of the first violated check, ok when no check is violated
C27_FirstError(diskCheckFails) ==
    LET bad == { k \in 1..6 : C27_Violated(diskCheckFails)[k] } IN
    CfgReturned =>
        /\ bad = {} <=> result = Ok
        /\ bad # {} => result = C27_Errors[CHOOSE k \in bad : \A j \in bad : k <= j]

----------------------------------------------------------------------------
(* Properties of zero-valued flags (SpecConfigure) *)

\* the flag was given on the command line with this value
C28_Given(flag, flagValue, x) == flag \in env.flags.changed /\ flagValue = x

\* the configuration is final, validated or about to be
C28_Final == ConfigLoaded /\ pc \in {"cfg_validate", "cfg_returned"}

C28_RangeError ==
    /\ IsErr(result)
    /\ result.fmt \in { "CPU count must be between %d and %d, got %d",
                        "SSH port must be >= %d, got %d" }
    /\ result.arg = "0"

\* C28 as claimed: --cpu, --ram or --ssh-port given with the value 0 leaves
\* the value of the configuration file, or the default, in place, so that it
\* is never rejected by the range validation; --monitor-port 0 does override
\* a monitor port of the configuration file and disables the monitor.
C28_ZeroIsAbsent ==
    C28_Final =>
        /\ C28_Given("cpu", env.flags.CPU, 0) => cfg.CPU = FileOrDefault("CPU")
        /\ C28_Given("ram", env.flags.RAM, 0) => cfg.RAMGb = FileOrDefault("RAMGb")
        /\ C28_Given("ssh-port", env.flags.SSHPort, 0) =>
              cfg.SSHPort = FileOrDefault("SSHPort")
        /\ C28_Given("monitor-port", env.flags.MonitorPort, 0) => cfg.MonitorPort = 0
        /\ (pc = "cfg_returned" /\ C28_RangeError) =>
              /\ result.fmt = "CPU count must be between %d and %d, got %d" =>
                    ~C28_Given("cpu", env.flags.CPU, 0)
              /\ result.fmt = "SSH port must be >= %d, got %d" =>
                    ~C28_Given("ssh-port", env.flags.SSHPort, 0)

\* C28 as amended: --ram 0 leaves the value of the file, or the default, in
\* place; --cpu 0 and --ssh-port 0 do so only when the configuration file
\* could not be decoded: otherwise the value 0 of the flag reaches the
\* configuration through viper and the range validation rejects it;
\* --monitor-port 0 overrides a monitor port of the file and disables the
\* monitor.
C28_ZeroThroughViper ==
    C28_Final =>
        /\ C28_Given("ram", env.flags.RAM, 0) => cfg.RAMGb = FileOrDefault("RAMGb")
        /\ C28_Given("cpu", env.flags.CPU, 0) =>
              IF env.file.state = "badtype"
              THEN cfg.CPU = DefaultCPU
              ELSE /\ cfg.CPU = 0
                   /\ pc = "cfg_returned" =>
                         result = Err("CPU count must be between %d and %d, got %d", "0")
        /\ C28_Given("ssh-port", env.flags.SSHPort, 0) =>
              IF env.file.state = "badtype"
              THEN cfg.SSHPort = DefaultSSHPort
              ELSE /\ cfg.SSHPort = 0
                   /\ (pc = "cfg_returned" /\ cfg.CPU \in 1..32 /\ cfg.RAMGb \in 1..128) =>
                         result = Err("SSH port must be >= %d, got %d", "0")
        /\ C28_Given("monitor-port", env.flags.MonitorPort, 0) => cfg.MonitorPort = 0

\* --cpu 0 against a file that says 8, and --monitor-port 0 against a file
\* that says 4444
C28_Witness ==
    /\ pc = "cfg_returned"
    /\ ConfigLoaded
    /\ C28_Given("cpu", env.flags.CPU, 0)
    /\ C28_Given("ram", env.flags.RAM, 0)
    /\ C28_Given("monitor-port", env.flags.MonitorPort, 0)
    /\ env.file.keys = {"CPU", "RAMGb", "MonitorPort"}
    /\ cfg.RAMGb = 16
    /\ cfg.MonitorPort = 0
    /\ result = Err("CPU count must be between %d and %d, got %d", "0")

----------------------------------------------------------------------------
(* Properties of the two ports (Spec) *)

\* the finalized configuration has one free port, 1024 or above, for both
\* the SSH forwarding and the monitor
C29_SamePort ==
    /\ Overridden
    /\ cfg.MonitorPort # 0
    /\ cfg.MonitorPort = cfg.SSHPort
    /\ cfg.SSHPort >= 1024
    /\ cfg.SSHPort \notin env.busyPorts

C29_PortErrors ==
    { "SSH port must be >= %d, got %d",
      "monitor port must be >= %d, got %d",
      "SSH port %d is already in use. Please choose a different port using --ssh-port",
      "monitor port %d is already in use. Please choose a different port using --monitor-port" }

\* C29: a configuration whose non-zero monitorPort equals its sshPort, both
\* 1024 or above and the port free, is rejected neither by VMConfig.Validate
\* nor by ValidatePortsAvailable: when nothing else fails the pipeline
\* launches QEMU with the same host port for the SSH forwarding and for the
\* monitor.
C29_PortsIndependent ==
    C29_SamePort =>
        /\ IsErr(result) => result.fmt \notin C29_PortErrors
        /\ (IsErr(result) /\ "cause" \in DOMAIN result) =>
              result.cause.fmt \notin C29_PortErrors
        /\ (pc = "cfg_returned" /\ cfg.CPU \in 1..32 /\ cfg.RAMGb \in 1..128
               /\ cfg.DiskPath \in env.files) => result = Ok
        /\ pc \in {"arch_check", "v_disk"} =>
              /\ Event("listen", ToString(cfg.SSHPort)) \in Range(events)
              /\ CountOp("listen") = CountOp("close")
        /\ (Returned /\ C21_FailingStep = "none") =>
              /\ CountOp("exec") = 1
              /\ v.SSHPort = v.MonitorPort
              /\ GetNetworkArgs(v)[2] \in Range(args)
              /\ HasPair(args, "-monitor", TelnetSpec(cfg.SSHPort))

\* QEMU was started with port 2222 for both
C29_Witness ==
    /\ Returned
    /\ C29_SamePort
    /\ cfg.SSHPort = 2222
    /\ CountOp("exec") = 1
    /\ CountOp("listen") = 4
    /\ HasPair(args, "-monitor", "telnet:127.0.0.1:2222,server,nowait")
    /\ HasPair(args, "-netdev", "user,id=net0,hostfwd=tcp::2222-:22")

----------------------------------------------------------------------------
(* Properties of the monitor option (SpecBuild) *)

====
